---- MODULE Spec2Model ----
(***************************************************************************)
(* Harvest-plan engine of StockPortfolioManager:                           *)
(*   - the forward ladder engine of experiments/HarvesterExperiment.py,    *)
(*   - the plan store and controller of experiments/HarvesterPlanStore.py. *)
(* Python floats are IEEE-754 binary64 values; they are modelled exactly   *)
(* (53-bit significand, round to nearest even) on multi-limb naturals.     *)
(***************************************************************************)
EXTENDS Integers, Sequences, FiniteSets, TLC

(***************************************************************************)
(* Python evaluates an argument or an assigned expression once and then    *)
(* uses its value: With1(a, F) is F applied to the value of a.             *)
(***************************************************************************)
With1(a, F(_)) == CHOOSE r \in {F(x) : x \in {a}} : TRUE
With2(a, b, F(_, _)) == CHOOSE r \in {F(x, y) : x \in {a}, y \in {b}} : TRUE
With3(a, b, c, F(_, _, _)) == CHOOSE r \in {F(x, y, z) : x \in {a}, y \in {b}, z \in {c}} : TRUE

(***************************************************************************)
(* Multi-limb naturals: little-endian sequences of limbs, no high zero     *)
(* limb; <<>> is zero.                                                     *)
(***************************************************************************)
LimbBits == 14
Base == 2 ^ LimbBits

Limb(a, i) == IF i <= Len(a) THEN a[i] ELSE 0
Rest(a) == IF a = <<>> THEN <<>> ELSE Tail(a)

RECURSIVE BNorm(_)
BNorm(a0) ==
  With1(a0, LAMBDA a :
    IF a = <<>> THEN a
    ELSE IF a[Len(a)] = 0 THEN BNorm(SubSeq(a, 1, Len(a) - 1)) ELSE a)

RECURSIVE BFromInt(_)
BFromInt(k0) ==
  With1(k0, LAMBDA k : IF k = 0 THEN <<>> ELSE <<k % Base>> \o BFromInt(k \div Base))

RECURSIVE BToInt(_)
BToInt(a0) ==
  With1(a0, LAMBDA a : IF a = <<>> THEN 0 ELSE a[1] + Base * BToInt(Tail(a)))

RECURSIVE BAddC(_, _, _)
BAddC(a0, b0, c0) ==
  With3(a0, b0, c0, LAMBDA a, b, c :
    IF a = <<>> /\ b = <<>> THEN (IF c = 0 THEN <<>> ELSE <<c>>)
    ELSE With1(Limb(a, 1) + Limb(b, 1) + c, LAMBDA s :
           <<s % Base>> \o BAddC(Rest(a), Rest(b), s \div Base)))

BAdd(a, b) == BAddC(a, b, 0)

RECURSIVE BSubB(_, _, _)
BSubB(a0, b0, br0) ==
  With3(a0, b0, br0, LAMBDA a, b, br :
    IF a = <<>> THEN <<>>
    ELSE With1(a[1] - Limb(b, 1) - br, LAMBDA d :
           <<IF d < 0 THEN d + Base ELSE d>>
             \o BSubB(Tail(a), Rest(b), IF d < 0 THEN 1 ELSE 0)))

\* a - b for a >= b
BSub(a, b) == BNorm(BSubB(a, b, 0))

RECURSIVE BCmpAt(_, _, _)
BCmpAt(a, b, i0) ==
  With1(i0, LAMBDA i :
    IF i = 0 THEN 0
    ELSE IF a[i] > b[i] THEN 1
    ELSE IF a[i] < b[i] THEN -1
    ELSE BCmpAt(a, b, i - 1))

\* -1, 0, 1 as a < b, a = b, a > b
BCmp(a0, b0) ==
  With2(a0, b0, LAMBDA a, b :
    IF Len(a) > Len(b) THEN 1
    ELSE IF Len(a) < Len(b) THEN -1
    ELSE BCmpAt(a, b, Len(a)))

RECURSIVE BMulSmallC(_, _, _)
BMulSmallC(a0, k, c0) ==
  With2(a0, c0, LAMBDA a, c :
    IF a = <<>> THEN (IF c = 0 THEN <<>> ELSE <<c>>)
    ELSE With1(a[1] * k + c, LAMBDA p :
           <<p % Base>> \o BMulSmallC(Tail(a), k, p \div Base)))

\* a * k for 0 <= k < Base
BMulSmall(a, k0) == With1(k0, LAMBDA k : BNorm(BMulSmallC(a, k, 0)))

ShiftLimbs(a0, n) ==
  With1(a0, LAMBDA a : IF a = <<>> THEN <<>> ELSE [i \in 1..n |-> 0] \o a)

RECURSIVE BMulAt(_, _, _)
BMulAt(a, b, i0) ==
  With1(i0, LAMBDA i :
    IF i > Len(b) THEN <<>>
    ELSE BAdd(BMulSmall(a, b[i]), ShiftLimbs(BMulAt(a, b, i + 1), 1)))

BMul(a0, b0) == With2(a0, b0, LAMBDA a, b : BMulAt(a, b, 1))

RECURSIVE BDivSmallAt(_, _, _, _)
BDivSmallAt(a, k, i0, r0) ==
  With2(i0, r0, LAMBDA i, r :
    IF i = 0 THEN <<>>
    ELSE With1(r * Base + a[i], LAMBDA cur :
           BDivSmallAt(a, k, i - 1, cur % k) \o <<cur \div k>>))

\* a * 2^n and floor(a / 2^n)
BShl(a, n0) ==
  With1(n0, LAMBDA n : ShiftLimbs(BMulSmall(a, 2 ^ (n % LimbBits)), n \div LimbBits))

BShr(a0, n0) ==
  With2(a0, n0, LAMBDA a, n :
    IF n \div LimbBits >= Len(a) THEN <<>>
    ELSE With2(SubSeq(a, n \div LimbBits + 1, Len(a)), 2 ^ (n % LimbBits), LAMBDA hi, k :
           BNorm(BDivSmallAt(hi, k, Len(hi), 0))))

RECURSIVE BitLenInt(_)
BitLenInt(k0) == With1(k0, LAMBDA k : IF k = 0 THEN 0 ELSE 1 + BitLenInt(k \div 2))

BitLen(a0) ==
  With1(a0, LAMBDA a :
    IF a = <<>> THEN 0 ELSE LimbBits * (Len(a) - 1) + BitLenInt(a[Len(a)]))

\* bit i (bit 0 is the lowest) of a
BBit(a0, i0) ==
  With2(a0, i0, LAMBDA a, i : (Limb(a, i \div LimbBits + 1) \div (2 ^ (i % LimbBits))) % 2)

\* some of the n lowest bits of a is set
BLowNonZero(a0, n0) ==
  With2(a0, n0, LAMBDA a, n : BSub(a, BShl(BShr(a, n), n)) # <<>>)

\* one limb of long division: floor(r * Base / d) and the remainder, for
\* r < d and a 53-bit d; the digit is estimated from the leading bits and
\* then corrected downwards
RECURSIVE DivFix(_, _, _, _)
DivFix(qh0, p0, r, d) ==
  With2(qh0, p0, LAMBDA qh, p :
    IF BCmp(p, r) > 0 THEN DivFix(qh - 1, BSub(p, d), r, d)
    ELSE [q |-> qh, r |-> BSub(r, p)])

DivLimb(r0, d0) ==
  With2(ShiftLimbs(r0, 1), d0, LAMBDA r1, d :
    With1((BToInt(BShr(r1, 37)) + 1) \div BToInt(BShr(d, 37)), LAMBDA est :
      With1(IF est >= Base THEN Base - 1 ELSE est, LAMBDA qh :
        DivFix(qh, BMulSmall(d, qh), r1, d))))

(***************************************************************************)
(* binary64 values >= 0: [m, e] stands for m * 2^e with a 53-bit m         *)
(* (2^52 <= m < 2^53); zero is [m |-> <<>>, e |-> 0].  The engine and the  *)
(* store only ever compute with non-negative prices and amounts; exponents *)
(* stay far inside the binary64 range for the inputs drawn here.           *)
(***************************************************************************)
MantBits == 53
FZero == [m |-> <<>>, e |-> 0]

\* the rounding of FRound when n has sh > 0 bits too many
FRoundDown(n, e, sticky, sh) ==
  With1(BShr(n, sh), LAMBDA q :
    With1(IF /\ BBit(n, sh - 1) = 1
             /\ (sticky \/ q[1] % 2 = 1 \/ BLowNonZero(n, sh - 1))
          THEN BAdd(q, <<1>>) ELSE q,
          LAMBDA m1 :
            IF BitLen(m1) > MantBits
            THEN [m |-> BShr(m1, 1), e |-> e + sh + 1]
            ELSE [m |-> m1, e |-> e + sh]))

\* round n * 2^e (sticky: a non-zero part below n was discarded) to nearest even
FRound(n0, e0, sticky0) ==
  With3(n0, e0, sticky0, LAMBDA n, e, sticky :
    IF n = <<>> THEN FZero
    ELSE With1(BitLen(n), LAMBDA L :
           IF L <= MantBits
           THEN [m |-> BShl(n, MantBits - L), e |-> e - (MantBits - L)]
           ELSE FRoundDown(n, e, sticky, L - MantBits)))

\* float(k) for an int k >= 0
FInt(k) == FRound(BFromInt(k), 0, FALSE)

FMul(x0, y0) ==
  With2(x0, y0, LAMBDA x, y :
    IF x.m = <<>> \/ y.m = <<>> THEN FZero
    ELSE FRound(BMul(x.m, y.m), x.e + y.e, FALSE))

\* x / y for y # 0: four limbs of quotient below the leading bit, then rounded
FDiv(x0, y0) ==
  With2(x0, y0, LAMBDA x, y :
    IF x.m = <<>> THEN FZero
    ELSE With1(BCmp(x.m, y.m) >= 0, LAMBDA big :
         With1(DivLimb(IF big THEN BSub(x.m, y.m) ELSE x.m, y.m), LAMBDA s1 :
         With1(DivLimb(s1.r, y.m), LAMBDA s2 :
         With1(DivLimb(s2.r, y.m), LAMBDA s3 :
         With1(DivLimb(s3.r, y.m), LAMBDA s4 :
           FRound(BNorm(<<s4.q, s3.q, s2.q, s1.q, IF big THEN 1 ELSE 0>>),
                  x.e - y.e - 4 * LimbBits, s4.r # <<>>)))))))

FAdd(x0, y0) ==
  With2(x0, y0, LAMBDA x, y :
    IF x.m = <<>> THEN y
    ELSE IF y.m = <<>> THEN x
    ELSE With1(IF x.e < y.e THEN x.e ELSE y.e, LAMBDA lo :
           FRound(BAdd(BShl(x.m, x.e - lo), BShl(y.m, y.e - lo)), lo, FALSE)))

\* -1, 0, 1 as x < y, x = y, x > y
FCmp(x0, y0) ==
  With2(x0, y0, LAMBDA x, y :
    IF x.m = <<>> THEN (IF y.m = <<>> THEN 0 ELSE -1)
    ELSE IF y.m = <<>> THEN 1
    ELSE IF x.e > y.e THEN 1
    ELSE IF x.e < y.e THEN -1
    ELSE BCmp(x.m, y.m))

FGe(x, y) == FCmp(x, y) >= 0
\* a comparison that also holds for equal operands
FLe(x, y) == FCmp(x, y) <= 0

FLt(x, y) == FCmp(x, y) < 0

\* x - y for x >= y
FSub(x0, y0) ==
  With2(x0, y0, LAMBDA x, y :
    IF y.m = <<>> THEN x
    ELSE With1(IF x.e < y.e THEN x.e ELSE y.e, LAMBDA lo :
           FRound(BSub(BShl(x.m, x.e - lo), BShl(y.m, y.e - lo)), lo, FALSE)))

\* math.ceil(x)
FCeil(x0) ==
  With1(x0, LAMBDA x :
    IF x.m = <<>> THEN 0
    ELSE IF x.e >= 0 THEN BToInt(BShl(x.m, x.e))
    ELSE BToInt(BShr(x.m, 0 - x.e)) + (IF BLowNonZero(x.m, 0 - x.e) THEN 1 ELSE 0))

\* the float literal a/b (a, b small naturals, b # 0), e.g. 0.2 = Dec(2, 10)
Dec(a, b) == FDiv(FInt(a), FInt(b))

(***************************************************************************)
(* Python's None, for values that are otherwise records.                   *)
(***************************************************************************)
None == [none |-> TRUE]
IsNone(v) == "none" \in DOMAIN v

(***************************************************************************)
(* Ladder engine (experiments/HarvesterExperiment.py).  math.log, math.sqrt *)
(* and ** are not evaluated: the annualized volatility of a series whose   *)
(* kept log returns are not all 0.0 is an input (vol) of the model;        *)
(* r_daily, expected_days_from_now and total_return_vs_initial are left    *)
(* out of the plan record.                                                 *)
(***************************************************************************)

\* number of log returns compute_historical_volatility keeps
usable_log_returns(prices) ==
  Cardinality({i \in 2..Len(prices) : prices[i - 1].m # <<>> /\ prices[i].m # <<>>})

\* every kept log return is log(1.0) = 0.0
flat_returns(prices) ==
  \A i \in 2..Len(prices) :
    prices[i - 1].m = <<>> \/ prices[i].m = <<>> \/ prices[i - 1] = prices[i]

\* the annual_vol component of compute_historical_volatility's result: 0.0
\* when all kept returns are 0.0, otherwise the input vol
compute_historical_volatility(prices0, vol) ==
  With1(prices0, LAMBDA prices :
    IF Len(prices) < 2 THEN None
    ELSE IF usable_log_returns(prices) < 2 THEN None
    ELSE IF flat_returns(prices) THEN FZero
    ELSE vol)

\* Python's max(x, y) and min(x, y)
FMax(x0, y0) == With2(x0, y0, LAMBDA x, y : IF FGe(x, y) THEN x ELSE y)
FMin(x0, y0) == With2(x0, y0, LAMBDA x, y : IF FGe(y, x) THEN x ELSE y)

\* a threshold that is alpha * annual_vol without the clamp
suggest_H_from_vol_unclamped(prices, vol, alpha, min_H, max_H) ==
  With1(compute_historical_volatility(prices, vol), LAMBDA annual_vol :
    IF IsNone(annual_vol) THEN [H |-> None, annual_vol |-> None]
    ELSE [H |-> FMul(alpha, annual_vol), annual_vol |-> annual_vol])

\* [H, annual_vol], both None if volatility cannot be computed
suggest_H_from_vol(prices, vol, alpha, min_H, max_H) ==
  With1(compute_historical_volatility(prices, vol), LAMBDA annual_vol :
    IF IsNone(annual_vol) THEN [H |-> None, annual_vol |-> None]
    ELSE [H |-> FMax(min_H, FMin(max_H, FMul(alpha, annual_vol))),
          annual_vol |-> annual_vol])

\* the loop of compute_price_targets from rung j on, holding s shares
RECURSIVE price_targets_from(_, _, _, _, _)
price_targets_from(V0, H, s0, j0, n_harvests) ==
  With2(s0, j0, LAMBDA s, j :
    IF j > n_harvests \/ s <= 1 THEN <<>>
    ELSE With1(FDiv(FMul(FAdd(FInt(1), H), V0), FInt(s)), LAMBDA P_target :
         With1(FCeil(FDiv(V0, P_target)), LAMBDA min_shares_after :
           IF min_shares_after > s - 1 THEN <<>>
           ELSE <<[harvest       |-> j,
                   price_target  |-> P_target,
                   shares_before |-> s,
                   shares_sold   |-> s - min_shares_after,
                   shares_after  |-> min_shares_after]>>
                \o price_targets_from(V0, H, min_shares_after, j + 1, n_harvests))))

\* a ladder whose later rungs start again from s0 shares
compute_price_targets_restart(P0, H0, s0, n_harvests0) ==
  With3(FMul(FInt(s0), P0), H0, n_harvests0, LAMBDA V0, H, n_harvests :
    price_targets_from(V0, H, s0, 1, 1) \o price_targets_from(V0, H, s0, 2, n_harvests))

\* a ladder whose principal counts one share more than the position holds
compute_price_targets_more_principal(P0, H0, s0, n_harvests0) ==
  With3(FMul(FInt(s0 + 1), P0), H0, n_harvests0, LAMBDA V0, H, n_harvests :
    price_targets_from(V0, H, s0, 1, n_harvests))

\* V0 = s0 * P0, then the loop from rung 1 with s0 shares
compute_price_targets(P0, H0, s0, n_harvests0) ==
  With3(FMul(FInt(s0), P0), H0, n_harvests0, LAMBDA V0, H, n_harvests :
    price_targets_from(V0, H, s0, 1, n_harvests))

\* the enrichment loop: projected cash of each rung of a complete ladder
RECURSIVE enrich(_, _, _)
enrich(ladder, i0, cumulative_before) ==
  With1(i0, LAMBDA i :
    IF i > Len(ladder) THEN <<>>
    ELSE With1(ladder[i], LAMBDA rung :
         With2(FMul(FInt(rung.shares_sold), rung.price_target),
               FMul(FInt(rung.shares_after), rung.price_target),
               LAMBDA gross_harvest, remaining_value :
         With1(FAdd(cumulative_before, gross_harvest), LAMBDA cumulative_harvest :
           <<[harvest            |-> rung.harvest,
              price_target       |-> rung.price_target,
              shares_before      |-> rung.shares_before,
              shares_sold        |-> rung.shares_sold,
              shares_after       |-> rung.shares_after,
              gross_harvest      |-> gross_harvest,
              cumulative_harvest |-> cumulative_harvest,
              remaining_value    |-> remaining_value,
              total_wealth       |-> FAdd(cumulative_harvest, remaining_value)]>>
           \o enrich(ladder, i + 1, cumulative_harvest)))))

\* a search loop that takes the first s0 whose ladder has a rung, complete or not
RECURSIVE search_s0_partial(_, _, _, _, _)
search_s0_partial(P_current, H, n_iterations, s00, max_s0) ==
  With1(s00, LAMBDA s0 :
    IF s0 > max_s0 THEN 0
    ELSE IF Len(compute_price_targets(P_current, H, s0, n_iterations)) >= 1
         THEN s0
         ELSE search_s0_partial(P_current, H, n_iterations, s0 + 1, max_s0))

\* a search loop that does not stop at the first complete ladder: the last one wins
RECURSIVE search_s0_last(_, _, _, _, _)
search_s0_last(P_current, H, n_iterations, s00, max_s0) ==
  With1(s00, LAMBDA s0 :
    IF s0 > max_s0 THEN 0
    ELSE With1(search_s0_last(P_current, H, n_iterations, s0 + 1, max_s0), LAMBDA later :
           IF later # 0 THEN later
           ELSE IF Len(compute_price_targets(P_current, H, s0, n_iterations)) = n_iterations
           THEN s0
           ELSE 0))

\* the search loop: the first s0 in s0..max_s0 whose ladder is complete, 0 if none
RECURSIVE search_s0(_, _, _, _, _)
search_s0(P_current, H, n_iterations, s00, max_s0) ==
  With1(s00, LAMBDA s0 :
    IF s0 > max_s0 THEN 0
    ELSE IF Len(compute_price_targets(P_current, H, s0, n_iterations)) = n_iterations
         THEN s0
         ELSE search_s0(P_current, H, n_iterations, s0 + 1, max_s0))

\* the plan returned for the s0 the search found
forward_plan_record(P_current, sug, n_iterations, s0) ==
  [s0           |-> s0,
   P_current    |-> P_current,
   H            |-> sug.H,
   annual_vol   |-> sug.annual_vol,
   V0           |-> FMul(FInt(s0), P_current),
   n_iterations |-> n_iterations,
   ladder       |-> With1(compute_price_targets(P_current, sug.H, s0, n_iterations),
                          LAMBDA ladder : enrich(ladder, 1, FZero))]

\* H = None asks for the volatility-derived threshold
design_forward_ladder_from_history(prices0, H0, n_iterations0, max_s00, alpha, min_H, max_H, vol) ==
  With3(prices0, n_iterations0, max_s00, LAMBDA prices, n_iterations, max_s0 :
    IF Len(prices) < 2 THEN None
    ELSE IF prices[1].m = <<>> \/ prices[Len(prices)].m = <<>> THEN None
    ELSE With2(prices[Len(prices)],
               With1(H0, LAMBDA H :
                 IF IsNone(H)
                 THEN suggest_H_from_vol(prices, vol, alpha, min_H, max_H)
                 ELSE [H |-> H, annual_vol |-> compute_historical_volatility(prices, vol)]),
               LAMBDA P_current, sug :
                 IF IsNone(sug.H) THEN None
                 ELSE With1(search_s0(P_current, sug.H, n_iterations, 1, max_s0), LAMBDA s0 :
                        IF s0 = 0 THEN None
                        ELSE forward_plan_record(P_current, sug, n_iterations, s0))))


(***************************************************************************)
(* Bounds and inputs.                                                      *)
(***************************************************************************)
MaxCalls  == 3      \* calls of the store's operations in one run
MaxConcCalls == 2   \* calls of build_plan in a run of two concurrent builders
MaxN      == 2      \* largest n_iterations a caller asks for
MaxLiveBuilds == 2  \* calls of build_plan in a run beside the scheduled scan
MaxS0     == 8      \* max_s0 the callers pass (the code's default is 1000)

Procs   == {"p1", "p2"}
Tickers == {"A", "B"}

NullInt == 0 - 1    \* SQL NULL in an INTEGER column
NullStr == "NULL"   \* SQL NULL in a TEXT column, Python None for a str

Bar(d, c, a) == [bar_date |-> d, close |-> FInt(c), adj_close |-> FInt(a)]

\* what fetch_daily_history_ohlcv can return: nothing, one bar, three bars; the
\* bar of the last day has a close above its adjusted close
Fetches == { <<>>, <<Bar(3, 2, 1)>>, <<Bar(1, 1, 1), Bar(2, 2, 2), Bar(3, 2, 1)>> }

\* history_window_days the callers pass
Windows == {2, 3}

\* PlanBuildParams the callers pass: over a window of 3 bars no rung, one rung
\* or MaxN rungs with room for the search, and MaxN rungs with the search
\* capped at 2 shares; over a window of 2 bars one rung
BuildParams ==
  { b \in [history_window_days : Windows, n_iterations : {0, 1, MaxN}, alpha : {Dec(5, 10)},
           min_H : {Dec(2, 10)}, max_H : {Dec(30, 100)}, max_s0 : {2, MaxS0}] :
      \/ b.history_window_days = 3 /\ b.max_s0 = MaxS0
      \/ b.history_window_days = 3 /\ b.n_iterations = MaxN
      \/ b.history_window_days = 2 /\ b.max_s0 = MaxS0 /\ b.n_iterations = 1 }

Vols == {Dec(4, 10)}

\* the adjusted closes build_plan can read back from the stored bars
StoredSeries ==
  UNION { { [i \in 1..w |-> f[Len(f) - w + i].adj_close] :
              w \in {h \in Windows : 2 <= h /\ h <= Len(f)} } : f \in Fetches }

\* the ladder engine's result for every input build_plan can call it with,
\* as pairs <<input, result>>
forward_plans ==
  { <<c, design_forward_ladder_from_history(c.prices, None, c.params.n_iterations,
                                            c.params.max_s0, c.params.alpha, c.params.min_H,
                                            c.params.max_H, c.vol)>> :
      c \in [prices : StoredSeries, params : BuildParams, vol : Vols] }

forward_plan_for(prices, params, vol) ==
  (CHOOSE r \in forward_plans : r[1] = [prices |-> prices, params |-> params, vol |-> vol])[2]

\* what _poll_latest_close can return
Quotes == {None, FInt(1), FInt(100)}

\* what the poll can return for a rung: a quote of Quotes, or the rung's target
\* price itself
QuotesFor(target_price) == Quotes \cup {target_price}

\* arguments of record_execution besides the rung id (ts: executed_at or now)
ExecArgs ==
  { [executed_price |-> FInt(2), shares_sold |-> 1, tax_paid |-> FZero,
     ts |-> "t1", notes |-> NullStr],
    [executed_price |-> FInt(3), shares_sold |-> 2, tax_paid |-> FInt(1),
     ts |-> "t2", notes |-> "sold"] }

(***************************************************************************)
(* State: the tables of SCHEMA_SQL, the clock and the callers.             *)
(***************************************************************************)
VARIABLES
  symbols,            \* sequence of tickers; symbol_id is the position
  price_bars_daily,   \* <<symbol_id, bar_date>> -> [close, adj_close]
  plan_templates,     \* sequence of template rows; template_id is the position
  plan_instances,     \* instance_id -> row
  plan_rungs,         \* rung_id -> row
  alerts,             \* alert_id -> row
  now,                \* clock: it ticks when a call starts
  proc,               \* caller -> its position and locals
  ladder_call,        \* a direct call of the ladder engine
  stocks,             \* Portfolio.stocks: symbol -> Stock
  portfolio_calls     \* the calls made on the Portfolio, with what they returned

tables == <<symbols, price_bars_daily, plan_templates, plan_instances, plan_rungs, alerts>>
vars == <<symbols, price_bars_daily, plan_templates, plan_instances, plan_rungs, alerts,
          now, proc, ladder_call, stocks, portfolio_calls>>

Idle == [pc |-> "idle"]

\* a call has returned value to its caller, or has raised error
Return(op, value) == [pc |-> "idle", op |-> op, outcome |-> "return", value |-> value]
Raise(op, error) == [pc |-> "idle", op |-> op, outcome |-> "raise", value |-> error]
NoCall == [pc |-> "none"]
EmptyTable == [k \in {} |-> None]

Range(f) == {f[k] : k \in DOMAIN f}
MaxOf(S) == CHOOSE x \in S : \A y \in S : y <= x
MinOf(S) == CHOOSE x \in S : \A y \in S : x <= y

\* the rowid SQLite gives the next row of an INTEGER PRIMARY KEY table
NextRowid(t) == IF DOMAIN t = {} THEN 1 ELSE MaxOf(DOMAIN t) + 1

RECURSIVE Ascending(_)
Ascending(S) == IF S = {} THEN <<>> ELSE <<MinOf(S)>> \o Ascending(S \ {MinOf(S)})

Init ==
  /\ symbols = <<>>
  /\ price_bars_daily = EmptyTable
  /\ plan_templates = <<>>
  /\ plan_instances = EmptyTable
  /\ plan_rungs = EmptyTable
  /\ alerts = EmptyTable
  /\ now = 0
  /\ proc = [p \in Procs |-> Idle]
  /\ ladder_call = NoCall
  /\ stocks = EmptyTable
  /\ portfolio_calls = <<>>

(***************************************************************************)
(* Queries.                                                                *)
(***************************************************************************)

\* a query that finds no rung while a rung of the instance is TRIGGERED and
\* waits for its execution
next_pending_rung_after_execution(instances, rungs, instance_id) ==
  LET rows == {r \in DOMAIN rungs :
                 /\ rungs[r].instance_id = instance_id
                 /\ rungs[r].status = "PENDING"}
      held == {r \in DOMAIN rungs :
                 /\ rungs[r].instance_id = instance_id
                 /\ rungs[r].status = "TRIGGERED"}
  IN  IF instance_id \notin DOMAIN instances THEN 0
      ELSE IF instances[instance_id].status # "ACTIVE" THEN 0
      ELSE IF rows = {} \/ held # {} THEN 0
      ELSE CHOOSE r \in rows : \A q \in rows : rungs[r].rung_index <= rungs[q].rung_index

\* a query that orders the PENDING rungs by rung_index DESC
next_pending_rung_desc(instances, rungs, instance_id) ==
  LET rows == {r \in DOMAIN rungs :
                 /\ rungs[r].instance_id = instance_id
                 /\ rungs[r].status = "PENDING"}
  IN  IF instance_id \notin DOMAIN instances THEN 0
      ELSE IF instances[instance_id].status # "ACTIVE" THEN 0
      ELSE IF rows = {} THEN 0
      ELSE CHOOSE r \in rows : \A q \in rows : rungs[r].rung_index >= rungs[q].rung_index

\* SQL_GET_NEXT_PENDING_RUNG: rung id, 0 if there is no row
next_pending_rung(instances, rungs, instance_id) ==
  LET rows == {r \in DOMAIN rungs :
                 /\ rungs[r].instance_id = instance_id
                 /\ rungs[r].status = "PENDING"}
  IN  IF instance_id \notin DOMAIN instances THEN 0
      ELSE IF instances[instance_id].status # "ACTIVE" THEN 0
      ELSE IF rows = {} THEN 0
      ELSE CHOOSE r \in rows : \A q \in rows : rungs[r].rung_index <= rungs[q].rung_index

\* SQL_GET_ACTIVE_ALERT_FOR_RUNG: alert id, 0 if there is no row
active_alert_for_rung(als, rung_id) ==
  LET rows == {a \in DOMAIN als : als[a].rung_id = rung_id /\ als[a].status = "ACTIVE"}
  IN  IF rows = {} THEN 0 ELSE MinOf(rows)

\* SQL_LIST_ACTIVE_PLANS
list_active_plans(instances) ==
  Ascending({i \in DOMAIN instances : instances[i].status = "ACTIVE"})

\* ux_one_active_plan_per_symbol
ux_one_active_plan_per_symbol(instances) ==
  \A i, j \in DOMAIN instances :
    (/\ instances[i].status = "ACTIVE" /\ instances[j].status = "ACTIVE"
     /\ instances[i].symbol_id = instances[j].symbol_id) => i = j

\* UNIQUE(instance_id, rung_index) of plan_rungs
ux_rung_index(rungs) ==
  \A r, q \in DOMAIN rungs :
    (/\ rungs[r].instance_id = rungs[q].instance_id
     /\ rungs[r].rung_index = rungs[q].rung_index) => r = q


(***************************************************************************)
(* HarvesterPlanDB.build_plan.  Each "with self._connect()" block is one   *)
(* step; a raise ends the call.  Wall-clock stamps other than created_at   *)
(* (ingested_at, triggered_at, fired_at, last_checked_at) are not kept.    *)
(***************************************************************************)

SetPc(p, locals) == proc' = [proc EXCEPT ![p] = locals]

\* step 1 and the fetch of step 2: upsert the symbol row, fetch the bars
build_plan_symbol(p) ==
  /\ proc[p].pc = "idle"
  /\ now < MaxCalls
  /\ \E symbol \in Tickers, fetch \in Fetches, params \in BuildParams, vol \in Vols :
       LET inserted  == IF symbol \in Range(symbols) THEN symbols ELSE Append(symbols, symbol)
           symbol_id == CHOOSE i \in 1..Len(inserted) : inserted[i] = symbol
       IN  /\ symbols' = inserted
           /\ now' = now + 1
           /\ IF fetch = <<>>
              THEN SetPc(p, Raise("build_plan", "No price history returned"))
              ELSE SetPc(p, [pc |-> "build_bars", symbol_id |-> symbol_id, bars |-> fetch,
                             params |-> params, vol |-> vol, now |-> now + 1])
  /\ UNCHANGED <<price_bars_daily, plan_templates, plan_instances, plan_rungs, alerts, ladder_call, stocks, portfolio_calls>>

\* SQL_UPSERT_DAILY_BAR for every fetched bar, under the CHECKs of the table
upsert_daily_bars(table, symbol_id, bars) ==
  LET keys == {<<symbol_id, bars[i].bar_date>> : i \in 1..Len(bars)}
      row(k) == LET i == CHOOSE j \in 1..Len(bars) : bars[j].bar_date = k[2]
                IN  [close |-> bars[i].close, adj_close |-> bars[i].adj_close]
  IN  [k \in DOMAIN table \cup keys |-> IF k \in keys THEN row(k) ELSE table[k]]

\* step 2: one transaction upserts the bars; a CHECK failure rolls it back
build_plan_bars(p) ==
  /\ proc[p].pc = "build_bars"
  /\ LET l  == proc[p]
         ok == \A i \in 1..Len(l.bars) : l.bars[i].close.m # <<>> /\ l.bars[i].adj_close.m # <<>>
     IN  IF ok
         THEN /\ price_bars_daily' = upsert_daily_bars(price_bars_daily, l.symbol_id, l.bars)
              /\ SetPc(p, [pc |-> "build_prices", symbol_id |-> l.symbol_id,
                           params |-> l.params, vol |-> l.vol, now |-> l.now])
         ELSE /\ UNCHANGED price_bars_daily
              /\ SetPc(p, Raise("build_plan", "IntegrityError"))
  /\ UNCHANGED <<symbols, plan_templates, plan_instances, plan_rungs, alerts, now, ladder_call, stocks, portfolio_calls>>

\* the bar dates of a symbol that the step 3 query returns, oldest first
last_bar_dates(table, symbol_id, history_window_days) ==
  LET dates == Ascending({k[2] : k \in {q \in DOMAIN table : q[1] = symbol_id}})
  IN  IF Len(dates) <= history_window_days THEN dates
      ELSE SubSeq(dates, Len(dates) - history_window_days + 1, Len(dates))

\* steps 3 and 4: read the stored prices back and run the ladder engine
build_plan_prices(p) ==
  /\ proc[p].pc = "build_prices"
  /\ LET l            == proc[p]
         dates        == last_bar_dates(price_bars_daily, l.symbol_id, l.params.history_window_days)
         prices_adj   == [i \in 1..Len(dates) |-> price_bars_daily[<<l.symbol_id, dates[i]>>].adj_close]
         prices_close == [i \in 1..Len(dates) |-> price_bars_daily[<<l.symbol_id, dates[i]>>].close]
     IN  IF Len(dates) < 2
         THEN SetPc(p, Raise("build_plan", "Not enough stored history"))
         ELSE \E forward_plan \in {forward_plan_for(prices_adj, l.params, l.vol)} :
                IF IsNone(forward_plan)
                THEN SetPc(p, Raise("build_plan", "No feasible forward ladder found"))
                ELSE SetPc(p, [pc |-> "build_template", symbol_id |-> l.symbol_id,
                               params |-> l.params, now |-> l.now,
                               forward_plan |-> forward_plan,
                               price_asof |-> prices_close[Len(dates)],
                               history_end_date |-> dates[Len(dates)]])
  /\ UNCHANGED <<symbols, price_bars_daily, plan_templates, plan_instances, plan_rungs,
                 alerts, now, ladder_call, stocks, portfolio_calls>>

TemplateName == "T"

\* step 5: find the template by name or insert it
build_plan_template(p) ==
  /\ proc[p].pc = "build_template"
  /\ LET l     == proc[p]
         found == {t \in 1..Len(plan_templates) : plan_templates[t].name = TemplateName}
         row   == [name |-> TemplateName, is_dynamic_h |-> 1,
                   history_window_days |-> l.params.history_window_days,
                   n_iterations |-> l.params.n_iterations, alpha |-> l.params.alpha,
                   min_h |-> l.params.min_H, max_h |-> l.params.max_H]
         template_id == IF found # {} THEN MinOf(found) ELSE Len(plan_templates) + 1
     IN  /\ plan_templates' = IF found # {} THEN plan_templates ELSE Append(plan_templates, row)
         /\ SetPc(p, [pc |-> "build_instance", symbol_id |-> l.symbol_id,
                      params |-> l.params, now |-> l.now, forward_plan |-> l.forward_plan,
                      price_asof |-> l.price_asof, history_end_date |-> l.history_end_date,
                      template_id |-> template_id])
  /\ UNCHANGED <<symbols, price_bars_daily, plan_instances, plan_rungs, alerts, now, ladder_call, stocks, portfolio_calls>>

\* the ACTIVE instance of a symbol that step 6 selects (NullInt if none)
prev_active_instance(instances, symbol_id) ==
  LET rows == {i \in DOMAIN instances :
                 instances[i].symbol_id = symbol_id /\ instances[i].status = "ACTIVE"}
  IN  IF rows = {} THEN NullInt
      ELSE CHOOSE i \in rows : \A j \in rows : instances[i].created_at >= instances[j].created_at

\* the CHECK constraints of plan_instances (annual_vol >= 0 holds for every
\* value of the model)
check_plan_instance(row) ==
  /\ row.shares_initial > 0
  /\ row.price_asof.m # <<>>
  /\ row.v0_floor.m # <<>>
  /\ row.capital_at_risk.m # <<>>
  /\ row.h_threshold.m # <<>>
  /\ row.n_iterations > 0

\* a build that supersedes but does not record what it superseded
insert_plan_instance_unlinked(instances, row) ==
  LET prev        == prev_active_instance(instances, row.symbol_id)
      superseded  == IF prev = NullInt THEN instances
                     ELSE [instances EXCEPT ![prev].status = "SUPERSEDED"]
      instance_id == NextRowid(instances)
      inserted    == superseded @@ (instance_id :> row)
  IN  IF check_plan_instance(row) /\ ux_one_active_plan_per_symbol(inserted)
      THEN [ok |-> TRUE, instance_id |-> instance_id, instances |-> inserted]
      ELSE [ok |-> FALSE, instance_id |-> NullInt, instances |-> instances]

\* a build that neither supersedes nor is held back by the unique index
insert_plan_instance_blind(instances, row) ==
  LET instance_id == NextRowid(instances)
  IN  IF check_plan_instance(row)
      THEN [ok |-> TRUE, instance_id |-> instance_id,
            instances |-> instances @@
                          (instance_id :> [row EXCEPT !.supersedes_instance_id =
                                             prev_active_instance(instances, row.symbol_id)])]
      ELSE [ok |-> FALSE, instance_id |-> NullInt, instances |-> instances]

\* a build whose failed INSERT leaves the UPDATE before it in place
insert_plan_instance_no_rollback(instances, row) ==
  LET prev        == prev_active_instance(instances, row.symbol_id)
      superseded  == IF prev = NullInt THEN instances
                     ELSE [instances EXCEPT ![prev].status = "SUPERSEDED"]
      instance_id == NextRowid(instances)
      inserted    == superseded @@
                     (instance_id :> [row EXCEPT !.supersedes_instance_id = prev])
  IN  IF check_plan_instance(row) /\ ux_one_active_plan_per_symbol(inserted)
      THEN [ok |-> TRUE, instance_id |-> instance_id, instances |-> inserted]
      ELSE [ok |-> FALSE, instance_id |-> NullInt, instances |-> superseded]

\* step 6, plan_instances: supersede the ACTIVE instance of the symbol and
\* insert the new row; a CHECK or ux_one_active_plan_per_symbol fails the
\* INSERT, and the ROLLBACK undoes the UPDATE
insert_plan_instance(instances, row) ==
  LET prev        == prev_active_instance(instances, row.symbol_id)
      superseded  == IF prev = NullInt THEN instances
                     ELSE [instances EXCEPT ![prev].status = "SUPERSEDED"]
      instance_id == NextRowid(instances)
      inserted    == superseded @@
                     (instance_id :> [row EXCEPT !.supersedes_instance_id = prev])
  IN  IF check_plan_instance(row) /\ ux_one_active_plan_per_symbol(inserted)
      THEN [ok |-> TRUE, instance_id |-> instance_id, instances |-> inserted]
      ELSE [ok |-> FALSE, instance_id |-> NullInt, instances |-> instances]

\* the row of plan_rungs for one rung of the ladder
plan_rung_row(instance_id, rung) ==
  [instance_id                |-> instance_id,
   rung_index                 |-> rung.harvest,
   target_price               |-> rung.price_target,
   shares_before              |-> rung.shares_before,
   shares_sold_planned        |-> rung.shares_sold,
   shares_after_planned       |-> rung.shares_after,
   gross_harvest_planned      |-> rung.gross_harvest,
   cumulative_harvest_planned |-> rung.cumulative_harvest,
   remaining_value_planned    |-> rung.remaining_value,
   total_wealth_planned       |-> rung.total_wealth,
   status                     |-> "PENDING",
   trigger_price              |-> None,
   executed_at                |-> NullStr,
   executed_price             |-> None,
   shares_sold_actual         |-> NullInt,
   gross_harvest_actual       |-> None,
   tax_paid_actual            |-> None,
   net_harvest_actual         |-> None,
   notes                      |-> NullStr]

\* a rung insert that leaves out the last rung of the ladder
insert_plan_rungs_short(rungs, instance_id, ladder) ==
  LET first == NextRowid(rungs)
  IN  rungs @@ [r \in first..(first + Len(ladder) - 2) |->
                  plan_rung_row(instance_id, ladder[r - first + 1])]

\* step 6, plan_rungs: one PENDING row per rung of the ladder
insert_plan_rungs(rungs, instance_id, ladder) ==
  LET first == NextRowid(rungs)
  IN  rungs @@ [r \in first..(first + Len(ladder) - 1) |->
                  plan_rung_row(instance_id, ladder[r - first + 1])]

\* step 6: one transaction; an exception rolls everything back and is raised
build_plan_instance(p) ==
  /\ proc[p].pc = "build_instance"
  /\ LET l   == proc[p]
         row == [template_id            |-> l.template_id,
                 symbol_id              |-> l.symbol_id,
                 status                 |-> "ACTIVE",
                 created_at             |-> l.now,
                 price_asof             |-> l.price_asof,
                 shares_initial         |-> l.forward_plan.s0,
                 v0_floor               |-> l.forward_plan.V0,
                 capital_at_risk        |-> l.forward_plan.V0,
                 history_end_date       |-> l.history_end_date,
                 history_window_days    |-> l.params.history_window_days,
                 annual_vol             |-> l.forward_plan.annual_vol,
                 h_threshold            |-> l.forward_plan.H,
                 n_iterations           |-> l.forward_plan.n_iterations,
                 supersedes_instance_id |-> NullInt]
         ins   == insert_plan_instance(plan_instances, row)
         rungs == insert_plan_rungs(plan_rungs, ins.instance_id, l.forward_plan.ladder)
     IN  IF ins.ok /\ ux_rung_index(rungs)
         THEN /\ plan_instances' = ins.instances
              /\ plan_rungs' = rungs
              /\ SetPc(p, [pc |-> "ensure_read", caller |-> "build_plan",
                           instance_id |-> ins.instance_id])
         ELSE /\ plan_instances' = IF ins.ok THEN plan_instances ELSE ins.instances
              /\ UNCHANGED plan_rungs
              /\ SetPc(p, Raise("build_plan", "IntegrityError"))
  /\ UNCHANGED <<symbols, price_bars_daily, plan_templates, alerts, now, ladder_call, stocks, portfolio_calls>>

(***************************************************************************)
(* HarvesterPlanDB._ensure_next_rung_alert: the read of the next pending   *)
(* rung, then one transaction that upserts its alert and disables others.  *)
(***************************************************************************)
\* what the caller of _ensure_next_rung_alert returns after it: build_plan its
\* summary (here the instance id), record_execution None
ensure_caller_returns(caller, instance_id) ==
  IF caller = "build_plan" THEN Return("build_plan", instance_id)
  ELSE Return("record_execution", None)

ensure_next_rung_alert_read(p) ==
  /\ proc[p].pc = "ensure_read"
  /\ LET instance_id == proc[p].instance_id
         rung_id     == next_pending_rung(plan_instances, plan_rungs, instance_id)
     IN  IF rung_id = 0
         THEN SetPc(p, ensure_caller_returns(proc[p].caller, instance_id))
         ELSE SetPc(p, [pc |-> "ensure_write", caller |-> proc[p].caller,
                        instance_id |-> instance_id, rung_id |-> rung_id,
                        symbol_id |-> plan_instances[instance_id].symbol_id,
                        threshold_price |-> plan_rungs[rung_id].target_price])
  /\ UNCHANGED <<tables, now, ladder_call, stocks, portfolio_calls>>

\* an INSERT without the ON CONFLICT clause, on a table without the unique index
upsert_alert_insert(als, rung_id, symbol_id, instance_id, threshold_price) ==
  als @@ (NextRowid(als) :>
            [rung_id |-> rung_id, symbol_id |-> symbol_id, instance_id |-> instance_id,
             threshold_price |-> threshold_price, status |-> "ACTIVE",
             fired_price |-> None])

\* SQL_UPSERT_ALERT_FOR_RUNG
upsert_alert_for_rung(als, rung_id, symbol_id, instance_id, threshold_price) ==
  LET rows == {a \in DOMAIN als : als[a].rung_id = rung_id}
  IN  IF rows # {}
      THEN [a \in DOMAIN als |->
              IF a \in rows
              THEN [als[a] EXCEPT !.threshold_price = threshold_price, !.status = "ACTIVE"]
              ELSE als[a]]
      ELSE als @@ (NextRowid(als) :>
                    [rung_id |-> rung_id, symbol_id |-> symbol_id, instance_id |-> instance_id,
                     threshold_price |-> threshold_price, status |-> "ACTIVE",
                     fired_price |-> None])

\* a refresh that leaves the other alerts of the instance as they are
disable_other_alerts_none(als, instance_id, rung_id) == als

\* a refresh that disables the other ACTIVE alerts of the symbol, whatever
\* instance they belong to
disable_other_alerts_of_symbol(als, instance_id, rung_id) ==
  [a \in DOMAIN als |->
     IF /\ \E b \in DOMAIN als : als[b].rung_id = rung_id /\ als[b].symbol_id = als[a].symbol_id
        /\ als[a].status = "ACTIVE" /\ als[a].rung_id # rung_id
     THEN [als[a] EXCEPT !.status = "DISABLED"]
     ELSE als[a]]

\* SQL_DISABLE_OTHER_ALERTS_FOR_INSTANCE
disable_other_alerts(als, instance_id, rung_id) ==
  [a \in DOMAIN als |->
     IF als[a].instance_id = instance_id /\ als[a].status = "ACTIVE" /\ als[a].rung_id # rung_id
     THEN [als[a] EXCEPT !.status = "DISABLED"]
     ELSE als[a]]

ensure_next_rung_alert_write(p) ==
  /\ proc[p].pc = "ensure_write"
  /\ LET l == proc[p]
     IN  alerts' = disable_other_alerts(
                     upsert_alert_for_rung(alerts, l.rung_id, l.symbol_id, l.instance_id,
                                           l.threshold_price),
                     l.instance_id, l.rung_id)
  /\ SetPc(p, ensure_caller_returns(proc[p].caller, proc[p].instance_id))
  /\ UNCHANGED <<symbols, price_bars_daily, plan_templates, plan_instances, plan_rungs,
                 now, ladder_call, stocks, portfolio_calls>>


(***************************************************************************)
(* HarvesterController.scan_and_fire_alerts.                               *)
(***************************************************************************)

\* the list of ACTIVE plans is read once, before the loop
scan_and_fire_alerts_list(p) ==
  /\ proc[p].pc = "idle"
  /\ now < MaxCalls
  /\ now' = now + 1
  /\ LET active == list_active_plans(plan_instances)
     IN  IF active = <<>>
         THEN SetPc(p, Return("scan_and_fire_alerts", <<>>))
         ELSE SetPc(p, [pc |-> "scan_rung", active |-> active, fired |-> <<>>])
  /\ UNCHANGED <<tables, ladder_call, stocks, portfolio_calls>>

\* a loop that ends the pass at the first row it is done with
scan_stop(l, fired) == Return("scan_and_fire_alerts", fired)

\* the loop moves on to the next row, or the call returns fired
scan_continue(l, fired) ==
  IF Len(l.active) = 1 THEN Return("scan_and_fire_alerts", fired)
  ELSE [pc |-> "scan_rung", active |-> Tail(l.active), fired |-> fired]

\* read the next pending rung of the row and poll the price
scan_and_fire_alerts_rung(p) ==
  /\ proc[p].pc = "scan_rung"
  /\ LET l       == proc[p]
         rung_id == next_pending_rung(plan_instances, plan_rungs, Head(l.active))
     IN  IF rung_id = 0
         THEN SetPc(p, scan_continue(l, l.fired))
         ELSE \E current_price \in QuotesFor(plan_rungs[rung_id].target_price) :
                SetPc(p, [pc |-> "scan_fire", active |-> l.active, fired |-> l.fired,
                          rung_id |-> rung_id,
                          target_price |-> plan_rungs[rung_id].target_price,
                          current_price |-> current_price])
  /\ UNCHANGED <<tables, now, ladder_call, stocks, portfolio_calls>>

\* SQL_MARK_ALERT_FIRED
mark_alert_fired(als, alert_id, price) ==
  [a \in DOMAIN als |->
     IF a = alert_id /\ als[a].status = "ACTIVE"
     THEN [als[a] EXCEPT !.status = "FIRED", !.fired_price = price]
     ELSE als[a]]

\* a mark-triggered statement without its status guard
mark_rung_triggered_unguarded(rungs, rung_id, price) ==
  [r \in DOMAIN rungs |->
     IF r = rung_id
     THEN [rungs[r] EXCEPT !.status = "TRIGGERED", !.trigger_price = price]
     ELSE rungs[r]]

\* SQL_MARK_RUNG_TRIGGERED
mark_rung_triggered(rungs, rung_id, price) ==
  [r \in DOMAIN rungs |->
     IF r = rung_id /\ rungs[r].status = "PENDING"
     THEN [rungs[r] EXCEPT !.status = "TRIGGERED", !.trigger_price = price]
     ELSE rungs[r]]

\* the row is skipped without a quote or below the target; otherwise one
\* transaction fires the rung's ACTIVE alert if there is one and triggers the rung
scan_and_fire_alerts_fire(p) ==
  /\ proc[p].pc = "scan_fire"
  /\ LET l     == proc[p]
         alert == active_alert_for_rung(alerts, l.rung_id)
     IN  IF IsNone(l.current_price)
         THEN /\ UNCHANGED <<alerts, plan_rungs>>
              /\ SetPc(p, scan_continue(l, l.fired))
         ELSE IF FLt(l.current_price, l.target_price)
         THEN /\ UNCHANGED <<alerts, plan_rungs>>
              /\ SetPc(p, scan_continue(l, l.fired))
         ELSE /\ alerts' = IF alert # 0 THEN mark_alert_fired(alerts, alert, l.current_price)
                           ELSE alerts
              /\ plan_rungs' = mark_rung_triggered(plan_rungs, l.rung_id, l.current_price)
              /\ SetPc(p, scan_continue(l, Append(l.fired, l.rung_id)))
  /\ UNCHANGED <<symbols, price_bars_daily, plan_templates, plan_instances, now, ladder_call, stocks, portfolio_calls>>

(***************************************************************************)
(* HarvesterPlanDB.symbols_at_harvest_points: the same loop as the scan,   *)
(* without a write.  A result is kept by its rung id.                      *)
(***************************************************************************)

symbols_at_harvest_points_list(p) ==
  /\ proc[p].pc = "idle"
  /\ now < MaxCalls
  /\ now' = now + 1
  /\ LET active == list_active_plans(plan_instances)
     IN  IF active = <<>>
         THEN SetPc(p, Return("symbols_at_harvest_points", <<>>))
         ELSE SetPc(p, [pc |-> "harvest_rung", active |-> active, results |-> <<>>])
  /\ UNCHANGED <<tables, ladder_call, stocks, portfolio_calls>>

\* the loop moves on to the next row, or the call returns results
harvest_continue(l, results) ==
  IF Len(l.active) = 1 THEN Return("symbols_at_harvest_points", results)
  ELSE [pc |-> "harvest_rung", active |-> Tail(l.active), results |-> results]

\* read the next pending rung of the row and poll the price
symbols_at_harvest_points_rung(p) ==
  /\ proc[p].pc = "harvest_rung"
  /\ LET l       == proc[p]
         rung_id == next_pending_rung(plan_instances, plan_rungs, Head(l.active))
     IN  IF rung_id = 0
         THEN SetPc(p, harvest_continue(l, l.results))
         ELSE \E current_price \in QuotesFor(plan_rungs[rung_id].target_price) :
                SetPc(p, [pc |-> "harvest_check", active |-> l.active,
                          results |-> l.results, rung_id |-> rung_id,
                          target_price |-> plan_rungs[rung_id].target_price,
                          current_price |-> current_price])
  /\ UNCHANGED <<tables, now, ladder_call, stocks, portfolio_calls>>

\* the row is a result if it has a quote at or above the target
symbols_at_harvest_points_check(p) ==
  /\ proc[p].pc = "harvest_check"
  /\ LET l == proc[p]
     IN  IF IsNone(l.current_price)
         THEN SetPc(p, harvest_continue(l, l.results))
         ELSE IF FGe(l.current_price, l.target_price)
         THEN SetPc(p, harvest_continue(l, Append(l.results, l.rung_id)))
         ELSE SetPc(p, harvest_continue(l, l.results))
  /\ UNCHANGED <<tables, now, ladder_call, stocks, portfolio_calls>>

(***************************************************************************)
(* HarvesterController.record_execution.                                   *)
(***************************************************************************)

\* a mark-executed statement without its status guard
mark_rung_executed_unguarded(rungs, rung_id, ts, price, shares_sold, tax_paid, net_harvest) ==
  [r \in DOMAIN rungs |->
     IF r = rung_id
     THEN [rungs[r] EXCEPT !.status = "EXECUTED", !.executed_at = ts,
                           !.executed_price = price, !.shares_sold_actual = shares_sold,
                           !.tax_paid_actual = tax_paid, !.net_harvest_actual = net_harvest]
     ELSE rungs[r]]

\* SQL_MARK_RUNG_EXECUTED
mark_rung_executed(rungs, rung_id, ts, price, shares_sold, tax_paid, net_harvest) ==
  [r \in DOMAIN rungs |->
     IF r = rung_id /\ rungs[r].status \in {"TRIGGERED", "PENDING"}
     THEN [rungs[r] EXCEPT !.status = "EXECUTED", !.executed_at = ts,
                           !.executed_price = price, !.shares_sold_actual = shares_sold,
                           !.tax_paid_actual = tax_paid, !.net_harvest_actual = net_harvest]
     ELSE rungs[r]]

\* UPDATE plan_rungs SET notes = :notes WHERE rung_id = :rung_id
set_rung_notes(rungs, rung_id, notes) ==
  [r \in DOMAIN rungs |-> IF r = rung_id THEN [rungs[r] EXCEPT !.notes = notes] ELSE rungs[r]]

\* the rung ids a caller passes: every stored one and one that matches no row
RungIdArgs == DOMAIN plan_rungs \cup {NextRowid(plan_rungs)}

\* one transaction: mark the rung EXECUTED, then store the notes if given
record_execution_mark(p) ==
  /\ proc[p].pc = "idle"
  /\ now < MaxCalls
  /\ now' = now + 1
  /\ \E rung_id \in RungIdArgs, a \in ExecArgs :
       LET gross  == FMul(a.executed_price, FInt(a.shares_sold))
           net    == FSub(gross, a.tax_paid)
           marked == mark_rung_executed(plan_rungs, rung_id, a.ts, a.executed_price,
                                        a.shares_sold, a.tax_paid, net)
       IN  /\ plan_rungs' = IF a.notes # NullStr THEN set_rung_notes(marked, rung_id, a.notes)
                            ELSE marked
           /\ SetPc(p, [pc |-> "exec_instance", rung_id |-> rung_id, args |-> a])
  /\ UNCHANGED <<symbols, price_bars_daily, plan_templates, plan_instances, alerts, ladder_call, stocks, portfolio_calls>>

\* SQL_GET_RUNG_INSTANCE, then the alert refresh if the rung exists
record_execution_instance(p) ==
  /\ proc[p].pc = "exec_instance"
  /\ LET rung_id == proc[p].rung_id
     IN  IF rung_id \in DOMAIN plan_rungs
         THEN SetPc(p, [pc |-> "ensure_read", caller |-> "record_execution",
                        instance_id |-> plan_rungs[rung_id].instance_id])
         ELSE SetPc(p, Return("record_execution", None))
  /\ UNCHANGED <<tables, now, ladder_call, stocks, portfolio_calls>>

\* POST /api/rungs/<rung_id>/execute: the response for the outcome r of
\* record_execution; whatever returns is answered 200 EXECUTED, and an
\* exception is left to the framework
execute_rung(r) ==
  IF r.outcome = "return" THEN [code |-> 200, status |-> "EXECUTED"]
  ELSE [code |-> 500, status |-> "ERROR"]

(***************************************************************************)
(* HarvesterPlanDB.purge_superseded_plans.  _connect() opens a connection  *)
(* on which PRAGMA foreign_keys was never issued (only the connection of   *)
(* _init_db ran SCHEMA_SQL), so SQLite's default applies and the DELETE    *)
(* does not cascade to plan_rungs and alerts.                              *)
(***************************************************************************)

\* a WHERE clause without the age condition
purge_matches_any_age(instances, syms, symbol, cutoff) ==
  {i \in DOMAIN instances :
     /\ instances[i].status = "SUPERSEDED"
     /\ symbol # NullStr =>
          \E k \in 1..Len(syms) : syms[k] = symbol /\ instances[i].symbol_id = k}

\* a WHERE clause without the status condition
purge_matches_any_status(instances, syms, symbol, cutoff) ==
  {i \in DOMAIN instances :
     /\ symbol # NullStr =>
          \E k \in 1..Len(syms) : syms[k] = symbol /\ instances[i].symbol_id = k
     /\ cutoff # NullInt => instances[i].created_at <= cutoff}

\* the WHERE clause: SUPERSEDED, of the ticker if given, created at or before the cutoff if given
purge_matches(instances, syms, symbol, cutoff) ==
  {i \in DOMAIN instances :
     /\ instances[i].status = "SUPERSEDED"
     /\ symbol # NullStr =>
          \E k \in 1..Len(syms) : syms[k] = symbol /\ instances[i].symbol_id = k
     /\ cutoff # NullInt => instances[i].created_at <= cutoff}

\* what purge_superseded_plans returns (return_ids=False): the count
purge_returns(matched, dry_run) ==
  Return("purge_superseded_plans", [count |-> matched, dry_run |-> dry_run])

\* the filters a caller passes
PurgeSymbols == Tickers \cup {NullStr}
PurgeAges == {NullInt, 0, 2}

\* now - timedelta(days=older_than_days), None if no age is given
purge_cutoff(clock, older_than_days) ==
  IF older_than_days = NullInt THEN NullInt ELSE clock - older_than_days

\* the call builds its WHERE clause; it reads the clock and stamps no row
purge_superseded_plans_where(p) ==
  /\ proc[p].pc = "idle"
  /\ \E symbol \in PurgeSymbols, older_than_days \in PurgeAges, dry_run \in BOOLEAN :
       SetPc(p, [pc |-> "purge_count", symbol |-> symbol, older_than_days |-> older_than_days,
                 cutoff |-> purge_cutoff(now, older_than_days), dry_run |-> dry_run])
  /\ UNCHANGED <<tables, now, ladder_call, stocks, portfolio_calls>>

\* count the matching rows; a dry run or an empty match returns here
purge_superseded_plans_count(p) ==
  /\ proc[p].pc = "purge_count"
  /\ LET l       == proc[p]
         matched == Cardinality(purge_matches(plan_instances, symbols, l.symbol, l.cutoff))
     IN  IF l.dry_run \/ matched = 0
         THEN SetPc(p, purge_returns(matched, l.dry_run))
         ELSE SetPc(p, [pc |-> "purge_delete", symbol |-> l.symbol, cutoff |-> l.cutoff,
                        matched |-> matched])
  /\ UNCHANGED <<tables, now, ladder_call, stocks, portfolio_calls>>

\* one transaction: delete the matching rows
purge_superseded_plans_delete(p) ==
  /\ proc[p].pc = "purge_delete"
  /\ LET gone == purge_matches(plan_instances, symbols, proc[p].symbol, proc[p].cutoff)
     IN  plan_instances' = [i \in DOMAIN plan_instances \ gone |-> plan_instances[i]]
  /\ SetPc(p, purge_returns(proc[p].matched, FALSE))
  /\ UNCHANGED <<symbols, price_bars_daily, plan_templates, plan_rungs, alerts, now, ladder_call, stocks, portfolio_calls>>

(***************************************************************************)
(* Specifications of the store: one caller at a time (Spec), and two       *)
(* callers whose steps interleave (SpecConc).                              *)
(***************************************************************************)
build_plan(p) ==
  \/ build_plan_symbol(p)
  \/ build_plan_bars(p)
  \/ build_plan_prices(p)
  \/ build_plan_template(p)
  \/ build_plan_instance(p)
  \/ ensure_next_rung_alert_read(p)
  \/ ensure_next_rung_alert_write(p)

Step(p) ==
  \/ build_plan(p)
  \/ scan_and_fire_alerts_list(p)
  \/ scan_and_fire_alerts_rung(p)
  \/ scan_and_fire_alerts_fire(p)
  \/ record_execution_mark(p)
  \/ record_execution_instance(p)
  \/ purge_superseded_plans_where(p)
  \/ purge_superseded_plans_count(p)
  \/ purge_superseded_plans_delete(p)

Next == Step("p1")
Spec == Init /\ [][Next]_vars

\* two callers of build_plan, each in its own process on the same database file
NextConc == (\E p \in Procs : build_plan(p)) /\ now' <= MaxConcCalls
SpecConc == Init /\ [][NextConc]_vars

\* the operator of one process: it builds plans and records executions
operator(p) ==
  \/ build_plan(p)
  \/ record_execution_mark(p)
  \/ record_execution_instance(p)

\* the monitor loop of a second process: it scans
monitor(p) ==
  \/ scan_and_fire_alerts_list(p)
  \/ scan_and_fire_alerts_rung(p)
  \/ scan_and_fire_alerts_fire(p)

\* an operator beside a monitor
NextRace == operator("p1") \/ monitor("p2")
SpecRace == Init /\ [][NextRace]_vars

\* a caller of record_execution
executor(p) ==
  \/ record_execution_mark(p)
  \/ record_execution_instance(p)
  \/ ensure_next_rung_alert_read(p)
  \/ ensure_next_rung_alert_write(p)

\* two callers of record_execution on the plans that one of them builds
NextExec == build_plan("p1") \/ executor("p1") \/ executor("p2")
SpecExec == Init /\ [][NextExec]_vars

\* the poll of the harvest points
symbols_at_harvest_points(p) ==
  \/ symbols_at_harvest_points_list(p)
  \/ symbols_at_harvest_points_rung(p)
  \/ symbols_at_harvest_points_check(p)

\* one caller that builds plans, polls the harvest points and scans
NextHarvest == build_plan("p1") \/ symbols_at_harvest_points("p1") \/ monitor("p1")
SpecHarvest == Init /\ [][NextHarvest]_vars

\* a scan started by a scheduler: the start of scan_and_fire_alerts, in a call
\* that is not one of the MaxCalls calls of a run
scan_and_fire_alerts_scheduled(p) ==
  /\ proc[p].pc = "idle"
  /\ LET active == list_active_plans(plan_instances)
     IN  IF active = <<>>
         THEN SetPc(p, Return("scan_and_fire_alerts", <<>>))
         ELSE SetPc(p, [pc |-> "scan_rung", active |-> active, fired |-> <<>>])
  /\ UNCHANGED <<tables, now, ladder_call, stocks, portfolio_calls>>

\* a monitor that scans again and again
scheduler(p) ==
  \/ scan_and_fire_alerts_scheduled(p)
  \/ scan_and_fire_alerts_rung(p)
  \/ scan_and_fire_alerts_fire(p)

\* a builder of plans, and beside it a scheduled scan that is never given up:
\* a step of the scan that can be taken is taken in the end
NextLive == (build_plan("p1") /\ now' <= MaxLiveBuilds) \/ scheduler("p2")
SpecLive == Init /\ [][NextLive]_vars /\ WF_(proc["p2"])(scheduler("p2"))

\* two monitors that scan the plans that one of the processes builds
NextScan == build_plan("p1") \/ monitor("p1") \/ monitor("p2")
SpecScan == Init /\ [][NextScan]_vars

(***************************************************************************)
(* Specification of the ladder engine alone: a call of                     *)
(* design_forward_ladder_from_history with arguments drawn in the initial  *)
(* state, and its return.                                                  *)
(***************************************************************************)
LadderSeries ==
  { <<FInt(1)>>, <<FInt(1), FInt(1)>>, <<FZero, FInt(1)>>, <<FInt(1), FInt(2), FInt(1)>>,
    <<FInt(2), FInt(1), FInt(3)>>, <<Dec(5, 2), FInt(3), FInt(7)>>,
    <<FInt(1), FInt(2), Dec(39, 10)>> }

LadderCalls ==
  [prices : LadderSeries,
   H : {None, Dec(5, 100), Dec(2, 10), Dec(5, 10), FInt(1), FInt(2)},
   n_iterations : 0..(MaxN + 1),
   max_s0 : {2, MaxS0},
   alpha : {Dec(5, 10)}, min_H : {Dec(5, 100), Dec(5, 10)}, max_H : {Dec(30, 100)},
   vol : {Dec(4, 10), FInt(1)}]

InitLadder ==
  /\ symbols = <<>>
  /\ price_bars_daily = EmptyTable
  /\ plan_templates = <<>>
  /\ plan_instances = EmptyTable
  /\ plan_rungs = EmptyTable
  /\ alerts = EmptyTable
  /\ now = 0
  /\ proc = [p \in Procs |-> Idle]
  /\ \E c \in LadderCalls : ladder_call = [pc |-> "call", args |-> c]
  /\ stocks = EmptyTable
  /\ portfolio_calls = <<>>

design_forward_ladder_call ==
  /\ ladder_call.pc = "call"
  /\ LET c == ladder_call.args
     IN  ladder_call' =
           [pc |-> "done", args |-> c,
            plan |-> design_forward_ladder_from_history(
                       c.prices, c.H, c.n_iterations, c.max_s0,
                       c.alpha, c.min_H, c.max_H, c.vol)]
  /\ UNCHANGED <<tables, now, proc, stocks, portfolio_calls>>

NextLadder == design_forward_ladder_call
SpecLadder == InitLadder /\ [][NextLadder]_vars

(***************************************************************************)
(* portfolio.Portfolio: the dict self.stocks keyed by symbol, and the      *)
(* calls add_stock, remove_stock and get_stock on it.  A Stock is kept by  *)
(* its name, symbol and quantity.                                          *)
(***************************************************************************)
MaxPortfolioCalls == 3   \* calls made on one Portfolio
MaxQuantity == 2         \* largest quantity of a Stock

StockSymbols == {"A", "B"}
Stocks == [name : {"n"}, symbol : StockSymbols, quantity : 1..MaxQuantity]

\* an add that keeps the stock already held under the symbol
add_stock_keep(d, stock) ==
  [k \in DOMAIN d \cup {stock.symbol} |-> IF k \in DOMAIN d THEN d[k] ELSE stock]

\* self.stocks[stock.symbol] = stock
add_stock(d, stock) ==
  [k \in DOMAIN d \cup {stock.symbol} |-> IF k = stock.symbol THEN stock ELSE d[k]]

\* a remove that leaves the dict as it is
remove_stock_none(d, symbol) == d

\* if symbol in self.stocks: del self.stocks[symbol]
remove_stock(d, symbol) ==
  IF symbol \in DOMAIN d THEN [k \in DOMAIN d \ {symbol} |-> d[k]] ELSE d

\* self.stocks.get(symbol)
get_stock(d, symbol) == IF symbol \in DOMAIN d THEN d[symbol] ELSE None

portfolio_add_stock ==
  /\ Len(portfolio_calls) < MaxPortfolioCalls
  /\ \E stock \in Stocks :
       /\ stocks' = add_stock(stocks, stock)
       /\ portfolio_calls' = Append(portfolio_calls,
                                    [op |-> "add_stock", arg |-> stock.symbol,
                                     stock |-> stock, ret |-> None])
  /\ UNCHANGED <<tables, now, proc, ladder_call>>

portfolio_remove_stock ==
  /\ Len(portfolio_calls) < MaxPortfolioCalls
  /\ \E symbol \in StockSymbols :
       /\ stocks' = remove_stock(stocks, symbol)
       /\ portfolio_calls' = Append(portfolio_calls,
                                    [op |-> "remove_stock", arg |-> symbol,
                                     stock |-> None, ret |-> None])
  /\ UNCHANGED <<tables, now, proc, ladder_call>>

portfolio_get_stock ==
  /\ Len(portfolio_calls) < MaxPortfolioCalls
  /\ \E symbol \in StockSymbols :
       portfolio_calls' = Append(portfolio_calls,
                                 [op |-> "get_stock", arg |-> symbol,
                                  stock |-> None, ret |-> get_stock(stocks, symbol)])
  /\ UNCHANGED <<tables, now, proc, ladder_call, stocks>>

NextPortfolio ==
  \/ portfolio_add_stock
  \/ portfolio_remove_stock
  \/ portfolio_get_stock

SpecPortfolio == Init /\ [][NextPortfolio]_vars

(***************************************************************************)
(* Properties.                                                             *)
(***************************************************************************)
ActiveInstancesOf(symbol_id) ==
  {i \in DOMAIN plan_instances :
     plan_instances[i].symbol_id = symbol_id /\ plan_instances[i].status = "ACTIVE"}

AllIdle == \A p \in Procs : proc[p].pc = "idle"

\* C1: in every reachable state, also while two build_plan calls run
\* concurrently, a symbol has at most one plan instance with status ACTIVE.
C1_OneActivePerSymbol ==
  \A symbol_id \in 1..Len(symbols) : Cardinality(ActiveInstancesOf(symbol_id)) <= 1

\* two build_plan calls for one symbol have both inserted their instance and
\* are both still running
C1_Witness ==
  \E i, j \in DOMAIN plan_instances :
    /\ plan_instances[i].symbol_id = plan_instances[j].symbol_id
    /\ plan_instances[i].status = "SUPERSEDED"
    /\ plan_instances[j].status = "ACTIVE"
    /\ proc["p1"].pc \in {"ensure_read", "ensure_write"}
    /\ proc["p2"].pc \in {"ensure_read", "ensure_write"}
    /\ {proc["p1"].instance_id, proc["p2"].instance_id} = {i, j}

ActiveAlertsOf(instance_id) ==
  {a \in DOMAIN alerts : alerts[a].instance_id = instance_id /\ alerts[a].status = "ACTIVE"}

PendingRungsOf(instance_id) ==
  {r \in DOMAIN plan_rungs :
     plan_rungs[r].instance_id = instance_id /\ plan_rungs[r].status = "PENDING"}

LowestPendingRung(instance_id, r) ==
  /\ r \in PendingRungsOf(instance_id)
  /\ \A q \in PendingRungsOf(instance_id) : plan_rungs[r].rung_index <= plan_rungs[q].rung_index

\* C2: whenever no call is running, every plan instance has at most one
\* ACTIVE alert, and that alert is on the instance's lowest-indexed PENDING
\* rung (so never on a TRIGGERED or EXECUTED rung).
C2_ActiveAlertOnLowestPending ==
  AllIdle =>
    \A i \in DOMAIN plan_instances :
      /\ Cardinality(ActiveAlertsOf(i)) <= 1
      /\ \A a \in ActiveAlertsOf(i) : LowestPendingRung(i, alerts[a].rung_id)

\* C3: a build_plan call that succeeds for a symbol that already has an
\* ACTIVE instance leaves exactly one ACTIVE instance for the symbol, the new
\* one; the earlier one is SUPERSEDED and the new one's
\* supersedes_instance_id is the earlier one's id.
C3_SecondBuildSupersedes ==
  [][\A p \in Procs :
       (proc[p].pc = "build_instance" /\ proc'[p].pc = "ensure_read") =>
         LET symbol_id == proc[p].symbol_id
             second    == proc'[p].instance_id
         IN  \A first \in ActiveInstancesOf(symbol_id) :
               /\ second \notin DOMAIN plan_instances
               /\ {i \in DOMAIN plan_instances' :
                     /\ plan_instances'[i].symbol_id = symbol_id
                     /\ plan_instances'[i].status = "ACTIVE"} = {second}
               /\ plan_instances'[first].status = "SUPERSEDED"
               /\ plan_instances'[second].supersedes_instance_id = first]_vars

\* a second build has succeeded: its instance is ACTIVE and points at the
\* SUPERSEDED first one
C3_Witness ==
  \E first, second \in DOMAIN plan_instances :
    /\ plan_instances[first].symbol_id = plan_instances[second].symbol_id
    /\ plan_instances[first].status = "SUPERSEDED"
    /\ plan_instances[second].status = "ACTIVE"
    /\ plan_instances[second].supersedes_instance_id = first
    /\ AllIdle

\* C4: every rung of a ladder returned by design_forward_ladder_from_history
\* keeps the principal: shares_after * price_target >= V0 = s0 * P_current.
C4_RungKeepsPrincipal ==
  (ladder_call.pc = "done" /\ ~IsNone(ladder_call.plan)) =>
    \A k \in 1..Len(ladder_call.plan.ladder) :
      LET rung == ladder_call.plan.ladder[k]
      IN  FGe(FMul(FInt(rung.shares_after), rung.price_target),
              FMul(FInt(ladder_call.plan.s0), ladder_call.plan.P_current))

\* C5: the s0 that design_forward_ladder_from_history returns is the least
\* integer in 1..max_s0 whose compute_price_targets ladder has all
\* n_iterations rungs.
C5_MinimalS0 ==
  (ladder_call.pc = "done" /\ ~IsNone(ladder_call.plan)) =>
    LET plan == ladder_call.plan
        complete(s) == Len(compute_price_targets(plan.P_current, plan.H, s,
                                                 ladder_call.args.n_iterations))
                         = ladder_call.args.n_iterations
    IN  /\ plan.s0 \in 1..ladder_call.args.max_s0
        /\ complete(plan.s0)
        /\ \A s \in 1..(plan.s0 - 1) : ~complete(s)

\* a returned plan whose s0 has smaller candidates that were rejected and a
\* larger candidate that would also complete
C5_Witness ==
  /\ ladder_call.pc = "done"
  /\ ~IsNone(ladder_call.plan)
  /\ ladder_call.plan.s0 > 2
  /\ ladder_call.plan.s0 < ladder_call.args.max_s0
  /\ Len(compute_price_targets(ladder_call.plan.P_current, ladder_call.plan.H,
                               ladder_call.args.max_s0, ladder_call.args.n_iterations))
       = ladder_call.args.n_iterations

\* the step is the transaction of scan_and_fire_alerts
ScanFireStep == \E p \in Procs : proc[p].pc = "scan_fire" /\ proc'[p] # proc[p]

\* the step is the first transaction of record_execution
RecordExecutionStep == \E p \in Procs : proc[p].pc = "idle" /\ proc'[p].pc = "exec_instance"

\* C6: a rung's status changes only PENDING -> TRIGGERED, in a scan, and
\* TRIGGERED -> EXECUTED or PENDING -> EXECUTED, in record_execution; so
\* EXECUTED is final, no rung returns to PENDING and a scan never sets EXECUTED.
C6_RungStatusMoves ==
  [][\A r \in DOMAIN plan_rungs \cap DOMAIN plan_rungs' :
       LET old == plan_rungs[r].status
           new == plan_rungs'[r].status
       IN  old # new =>
             \/ old = "PENDING" /\ new = "TRIGGERED" /\ ScanFireStep
             \/ old \in {"TRIGGERED", "PENDING"} /\ new = "EXECUTED" /\ RecordExecutionStep]_vars

\* a rung went PENDING -> TRIGGERED in a scan and then TRIGGERED -> EXECUTED
C6_Witness ==
  \E r \in DOMAIN plan_rungs :
    /\ plan_rungs[r].status = "EXECUTED"
    /\ ~IsNone(plan_rungs[r].trigger_price)
    /\ ~IsNone(plan_rungs[r].executed_price)

\* C7: a scan moves a rung to TRIGGERED only if the rung is PENDING and its
\* alert is ACTIVE, and the same transaction moves that alert to FIRED with
\* the observed price the rung gets as trigger_price.
C7_TriggeredRungHasFiredAlert ==
  [][\A r \in DOMAIN plan_rungs :
       (/\ ScanFireStep
        /\ plan_rungs[r].status # "TRIGGERED"
        /\ plan_rungs'[r].status = "TRIGGERED") =>
         /\ plan_rungs[r].status = "PENDING"
         /\ \E a \in DOMAIN alerts :
              /\ alerts[a].rung_id = r
              /\ alerts[a].status = "ACTIVE"
              /\ alerts'[a].status = "FIRED"
              /\ alerts'[a].fired_price = plan_rungs'[r].trigger_price]_vars

\* C8: record_execution on a rung that is already EXECUTED leaves its
\* executed_at, executed_price, shares_sold_actual, tax_paid_actual and
\* net_harvest_actual as they were.
C8_ExecutedRungKeepsExecution ==
  [][\A p \in Procs :
       (proc[p].pc = "idle" /\ proc'[p].pc = "exec_instance") =>
         LET r == proc'[p].rung_id
         IN  (r \in DOMAIN plan_rungs /\ plan_rungs[r].status = "EXECUTED") =>
               /\ plan_rungs'[r].status = "EXECUTED"
               /\ plan_rungs'[r].executed_at = plan_rungs[r].executed_at
               /\ plan_rungs'[r].executed_price = plan_rungs[r].executed_price
               /\ plan_rungs'[r].shares_sold_actual = plan_rungs[r].shares_sold_actual
               /\ plan_rungs'[r].tax_paid_actual = plan_rungs[r].tax_paid_actual
               /\ plan_rungs'[r].net_harvest_actual = plan_rungs[r].net_harvest_actual]_vars

\* a record_execution call with other arguments has just run on a rung that
\* was EXECUTED before, and the rung still carries the first execution
C8_Witness ==
  \E p \in Procs :
    /\ proc[p].pc = "exec_instance"
    /\ proc[p].rung_id \in DOMAIN plan_rungs
    /\ LET row == plan_rungs[proc[p].rung_id]
       IN  /\ row.status = "EXECUTED"
           /\ row.executed_at # proc[p].args.ts
           /\ row.executed_price # proc[p].args.executed_price

\* C9: record_execution on a TRIGGERED or PENDING rung makes it EXECUTED and
\* stores executed_price, shares_sold_actual, tax_paid_actual,
\* gross_harvest_actual = executed_price * shares_sold and
\* net_harvest_actual = executed_price * shares_sold - tax_paid.
C9_ExecutionStored ==
  [][\A p \in Procs :
       (proc[p].pc = "idle" /\ proc'[p].pc = "exec_instance") =>
         LET r == proc'[p].rung_id
             a == proc'[p].args
             gross == FMul(a.executed_price, FInt(a.shares_sold))
         IN  (r \in DOMAIN plan_rungs /\ plan_rungs[r].status \in {"TRIGGERED", "PENDING"}) =>
               /\ plan_rungs'[r].status = "EXECUTED"
               /\ plan_rungs'[r].executed_price = a.executed_price
               /\ plan_rungs'[r].shares_sold_actual = a.shares_sold
               /\ plan_rungs'[r].tax_paid_actual = a.tax_paid
               /\ plan_rungs'[r].gross_harvest_actual = gross
               /\ plan_rungs'[r].net_harvest_actual = FSub(gross, a.tax_paid)]_vars

\* C10: when record_execution returns for a rung of an ACTIVE instance that
\* still has a PENDING rung, the instance has exactly one ACTIVE alert; it is
\* on the lowest-indexed PENDING rung with that rung's target_price as
\* threshold, and every other alert of the instance is FIRED or DISABLED.
C10_ExecutionRefreshesAlert ==
  [][\A p \in Procs :
       (/\ proc[p].pc \in {"exec_instance", "ensure_read", "ensure_write"}
        /\ proc[p].pc = "exec_instance" \/ proc[p].caller = "record_execution"
        /\ proc'[p].pc = "idle") =>
         \A i \in DOMAIN plan_instances' :
           (/\ proc[p].pc # "exec_instance" /\ proc[p].instance_id = i
            /\ plan_instances'[i].status = "ACTIVE"
            /\ \E r \in DOMAIN plan_rungs' :
                 plan_rungs'[r].instance_id = i /\ plan_rungs'[r].status = "PENDING") =>
             \E a \in DOMAIN alerts' :
               /\ alerts'[a].instance_id = i
               /\ alerts'[a].status = "ACTIVE"
               /\ plan_rungs'[alerts'[a].rung_id].instance_id = i
               /\ plan_rungs'[alerts'[a].rung_id].status = "PENDING"
               /\ \A q \in DOMAIN plan_rungs' :
                    (plan_rungs'[q].instance_id = i /\ plan_rungs'[q].status = "PENDING") =>
                      plan_rungs'[alerts'[a].rung_id].rung_index <= plan_rungs'[q].rung_index
               /\ alerts'[a].threshold_price = plan_rungs'[alerts'[a].rung_id].target_price
               /\ \A b \in DOMAIN alerts' :
                    (alerts'[b].instance_id = i /\ b # a) =>
                      alerts'[b].status \in {"FIRED", "DISABLED"}]_vars

\* no call is running, a rung of an ACTIVE instance is EXECUTED, the alert of
\* the next PENDING rung is ACTIVE and an earlier alert was DISABLED
C10_Witness ==
  /\ AllIdle
  /\ \E i \in DOMAIN plan_instances, a, b \in DOMAIN alerts :
       /\ plan_instances[i].status = "ACTIVE"
       /\ \E r \in DOMAIN plan_rungs :
            plan_rungs[r].instance_id = i /\ plan_rungs[r].status = "EXECUTED"
       /\ ActiveAlertsOf(i) = {a}
       /\ LowestPendingRung(i, alerts[a].rung_id)
       /\ alerts[b].instance_id = i
       /\ alerts[b].status = "DISABLED"

\* r is the position of a caller whose call of op has returned
Returned(r, op) ==
  r.pc = "idle" /\ "op" \in DOMAIN r /\ r.op = op /\ r.outcome = "return"

\* r is the position of a caller whose call of op has raised error
Raised(r, op, error) ==
  r.pc = "idle" /\ "op" \in DOMAIN r /\ r.op = op /\ r.outcome = "raise" /\ r.value = error

\* the rungs of an instance
RungsOf(rungs, instance_id) == {r \in DOMAIN rungs : rungs[r].instance_id = instance_id}

\* the alerts of an instance
AlertsOf(als, instance_id) == {a \in DOMAIN als : als[a].instance_id = instance_id}

\* the step is the commit of step 6 of build_plan by p
BuildCommitStep(p) == proc[p].pc = "build_instance" /\ proc'[p].pc = "ensure_read"

\* the step is the return of a successful build_plan by p
BuildReturnStep(p) ==
  /\ proc[p].pc \in {"ensure_read", "ensure_write"}
  /\ proc[p].caller = "build_plan"
  /\ proc'[p].pc = "idle"

\* C11: a successful build_plan with n_iterations = N adds exactly one plan
\* instance, ACTIVE, and exactly N rungs for it, with rung_index 1..N each
\* once and all PENDING; when it returns the instance has exactly one alert,
\* which is ACTIVE and on the rung with rung_index 1.
C11_BuildAddsPlan ==
  [][\A p \in Procs :
       /\ BuildCommitStep(p) =>
            LET N == proc[p].params.n_iterations
                i == proc'[p].instance_id
            IN  /\ i \notin DOMAIN plan_instances
                /\ DOMAIN plan_instances' = DOMAIN plan_instances \cup {i}
                /\ plan_instances'[i].status = "ACTIVE"
                /\ DOMAIN plan_rungs' \ DOMAIN plan_rungs = RungsOf(plan_rungs', i)
                /\ \A r \in DOMAIN plan_rungs : plan_rungs'[r] = plan_rungs[r]
                /\ Cardinality(RungsOf(plan_rungs', i)) = N
                /\ {plan_rungs'[r].rung_index : r \in RungsOf(plan_rungs', i)} = 1..N
                /\ \A r \in RungsOf(plan_rungs', i) : plan_rungs'[r].status = "PENDING"
                /\ AlertsOf(alerts', i) = {}
       /\ BuildReturnStep(p) =>
            LET i == proc[p].instance_id
            IN  /\ Returned(proc'[p], "build_plan")
                /\ proc'[p].value = i
                /\ plan_instances'[i].status = "ACTIVE"
                /\ \A r \in RungsOf(plan_rungs', i) : plan_rungs'[r].status = "PENDING"
                /\ Cardinality(AlertsOf(alerts', i)) = 1
                /\ \A a \in AlertsOf(alerts', i) :
                     /\ alerts'[a].status = "ACTIVE"
                     /\ alerts'[a].rung_id \in RungsOf(plan_rungs', i)
                     /\ plan_rungs'[alerts'[a].rung_id].rung_index = 1]_vars

\* a build_plan for MaxN rungs has returned: its instance is ACTIVE with MaxN
\* PENDING rungs and one ACTIVE alert
C11_Witness ==
  \E p \in Procs :
    /\ Returned(proc[p], "build_plan")
    /\ plan_instances[proc[p].value].status = "ACTIVE"
    /\ plan_instances[proc[p].value].n_iterations = MaxN
    /\ Cardinality(RungsOf(plan_rungs, proc[p].value)) = MaxN
    /\ Cardinality(AlertsOf(alerts, proc[p].value)) = 1

\* the step is one of a build_plan call by p that has not committed step 6:
\* a step before step 6, or the step at which the call raises
BuildUncommittedStep(p) ==
  \/ proc[p].pc = "idle" /\ proc'[p].pc = "build_bars"
  \/ proc[p].pc = "idle" /\ now' # now
       /\ Raised(proc'[p], "build_plan", "No price history returned")
  \/ proc[p].pc \in {"build_bars", "build_prices", "build_template"}
  \/ proc[p].pc = "build_instance" /\ proc'[p].pc = "idle"

C13_ExecutedRungAlertSettled ==
  \A a \in DOMAIN alerts :
    (alerts[a].rung_id \in DOMAIN plan_rungs /\ plan_rungs[alerts[a].rung_id].status = "EXECUTED")
      => alerts[a].status # "ACTIVE"

\* instance i is SUPERSEDED, of the ticker if one is given, and created at or
\* before the cutoff if one is given
InPurgeFilter(instances, syms, i, symbol, cutoff) ==
  /\ instances[i].status = "SUPERSEDED"
  /\ symbol # NullStr =>
       (instances[i].symbol_id \in 1..Len(syms) /\ syms[instances[i].symbol_id] = symbol)
  /\ cutoff # NullInt => instances[i].created_at <= cutoff

\* the step is the DELETE transaction of purge_superseded_plans by p
PurgeDeleteStep(p) == proc[p].pc = "purge_delete" /\ proc'[p].pc = "idle"

\* C14: after purge_superseded_plans with dry_run=False every instance that
\* matched the filters is gone, and no rung and no alert remains whose
\* instance was purged.
C14_PurgeRemovesRungsAndAlerts ==
  [][\A p \in Procs :
       PurgeDeleteStep(p) =>
         LET gone == DOMAIN plan_instances \ DOMAIN plan_instances'
         IN  /\ \A i \in DOMAIN plan_instances :
                  InPurgeFilter(plan_instances, symbols, i, proc[p].symbol, proc[p].cutoff)
                    => i \in gone
             /\ \A r \in DOMAIN plan_rungs' : plan_rungs'[r].instance_id \notin gone
             /\ \A a \in DOMAIN alerts' : alerts'[a].instance_id \notin gone]_vars

\* the number of instances in the filter
PurgeFilterCount(instances, syms, symbol, cutoff) ==
  Cardinality({i \in DOMAIN instances : InPurgeFilter(instances, syms, i, symbol, cutoff)})

\* C15: purge_superseded_plans with dry_run=True changes no row of any table,
\* and the count it returns is the count that a call with the same filters
\* and dry_run=False returns when it starts in the state the dry run leaves:
\* both return the number of instances in the filter.
C15_DryRunCountsLikePurge ==
  [][\A p \in Procs :
       /\ (proc[p].pc = "purge_count" /\ proc[p].dry_run) =>
            /\ tables' = tables
            /\ Returned(proc'[p], "purge_superseded_plans")
            /\ proc'[p].value.dry_run
            /\ proc'[p].value.count =
                 PurgeFilterCount(plan_instances', symbols', proc[p].symbol,
                                  purge_cutoff(now', proc[p].older_than_days))
       /\ (proc[p].pc = "purge_count" /\ ~proc[p].dry_run) =>
            LET matched == PurgeFilterCount(plan_instances, symbols, proc[p].symbol,
                                            purge_cutoff(now, proc[p].older_than_days))
            IN  IF proc'[p].pc = "purge_delete"
                THEN proc'[p].matched = matched
                ELSE Returned(proc'[p], "purge_superseded_plans") /\ proc'[p].value.count = matched
       /\ PurgeDeleteStep(p) =>
            /\ Returned(proc'[p], "purge_superseded_plans")
            /\ proc'[p].value.count = proc[p].matched]_vars

\* a dry run has returned a count above 0 and the rows it counted are still there
C15_Witness ==
  \E p \in Procs :
    /\ Returned(proc[p], "purge_superseded_plans")
    /\ proc[p].value.dry_run
    /\ proc[p].value.count > 0
    /\ proc[p].value.count <=
         Cardinality({i \in DOMAIN plan_instances : plan_instances[i].status = "SUPERSEDED"})

\* the step is one of a purge_superseded_plans call by p before its DELETE
PurgeReadStep(p) ==
  \/ proc[p].pc = "idle" /\ proc'[p].pc = "purge_count"
  \/ proc[p].pc = "purge_count"

\* C16: purge_superseded_plans deletes and changes no ACTIVE instance, none
\* of its rungs and none of its alerts, and deletes no SUPERSEDED instance
\* outside the symbol and older_than_days filters: the steps before the
\* DELETE change no table, and the DELETE removes only instances in the
\* filter and leaves every other row as it was.
C16_PurgeKeepsTheRest ==
  [][\A p \in Procs :
       /\ PurgeReadStep(p) => tables' = tables
       /\ PurgeDeleteStep(p) =>
            /\ \A i \in DOMAIN plan_instances :
                 (\/ plan_instances[i].status = "ACTIVE"
                  \/ ~InPurgeFilter(plan_instances, symbols, i, proc[p].symbol, proc[p].cutoff))
                   => (i \in DOMAIN plan_instances' /\ plan_instances'[i] = plan_instances[i])
            /\ \A r \in DOMAIN plan_rungs :
                 (/\ plan_rungs[r].instance_id \in DOMAIN plan_instances
                  /\ plan_instances[plan_rungs[r].instance_id].status = "ACTIVE")
                   => (r \in DOMAIN plan_rungs' /\ plan_rungs'[r] = plan_rungs[r])
            /\ \A a \in DOMAIN alerts :
                 (/\ alerts[a].instance_id \in DOMAIN plan_instances
                  /\ plan_instances[alerts[a].instance_id].status = "ACTIVE")
                   => (a \in DOMAIN alerts' /\ alerts'[a] = alerts[a])]_vars

\* a purge has deleted an instance and has left a SUPERSEDED instance that was
\* outside its filter and an ACTIVE instance with its rungs and its alert
C16_Witness ==
  \E p \in Procs :
    /\ Returned(proc[p], "purge_superseded_plans")
    /\ ~proc[p].value.dry_run
    /\ proc[p].value.count > 0
    /\ \E i, j \in DOMAIN plan_instances :
         /\ plan_instances[i].status = "SUPERSEDED"
         /\ plan_instances[j].status = "ACTIVE"
         /\ RungsOf(plan_rungs, j) # {}
         /\ AlertsOf(alerts, j) # {}

\* the threshold a call of design_forward_ladder_from_history searches with:
\* the H it was given, or the one suggest_H_from_vol derives (None if undefined)
LadderCallH(c) ==
  IF IsNone(c.H) THEN suggest_H_from_vol(c.prices, c.vol, c.alpha, c.min_H, c.max_H).H
  ELSE c.H

\* the number of rungs compute_price_targets yields for s0 shares in a call
\* whose series and threshold are usable
LadderCallRungs(c, s0) ==
  Len(compute_price_targets(c.prices[Len(c.prices)], LadderCallH(c), s0, c.n_iterations))

\* the series of a call is too short or starts or ends at a price <= 0
LadderCallNoData(c) ==
  \/ Len(c.prices) < 2
  \/ c.prices[1].m = <<>>
  \/ c.prices[Len(c.prices)].m = <<>>

\* C17: design_forward_ladder_from_history returns no plan or a plan whose
\* ladder has exactly n_iterations rungs; it returns no plan when the series
\* has fewer than 2 prices, when the first or the last price is not positive,
\* when the volatility it needs is undefined, and when no s0 in 1..max_s0
\* completes the ladder; so for n_iterations >= 1 a returned plan never has
\* fewer rungs than asked for, or none.
C17_PlanOrNoPlan ==
  ladder_call.pc = "done" =>
    LET c    == ladder_call.args
        plan == ladder_call.plan
    IN  /\ ~IsNone(plan) => Len(plan.ladder) = c.n_iterations
        /\ (~IsNone(plan) /\ c.n_iterations >= 1) => Len(plan.ladder) >= 1
        /\ LadderCallNoData(c) => IsNone(plan)
        /\ (~LadderCallNoData(c) /\ IsNone(LadderCallH(c))) => IsNone(plan)
        /\ (/\ ~LadderCallNoData(c)
            /\ ~IsNone(LadderCallH(c))
            /\ \A s0 \in 1..c.max_s0 : LadderCallRungs(c, s0) # c.n_iterations)
             => IsNone(plan)

\* a call has returned no plan although some s0 within max_s0 yields a ladder
\* that is not empty, only shorter than asked for
C17_Witness ==
  /\ ladder_call.pc = "done"
  /\ IsNone(ladder_call.plan)
  /\ ~LadderCallNoData(ladder_call.args)
  /\ ~IsNone(LadderCallH(ladder_call.args))
  /\ \E s0 \in 1..ladder_call.args.max_s0 :
       /\ LadderCallRungs(ladder_call.args, s0) >= 1
       /\ LadderCallRungs(ladder_call.args, s0) < ladder_call.args.n_iterations

\* the adjusted closes that steps 3 and 4 of a build_plan call at pc
\* build_prices read back for the ladder engine
BuildPricesRead(l) ==
  LET dates == last_bar_dates(price_bars_daily, l.symbol_id, l.params.history_window_days)
  IN  [i \in 1..Len(dates) |-> price_bars_daily[<<l.symbol_id, dates[i]>>].adj_close]

\* the stored history is too short for a plan: fewer than 2 prices, or too
\* few log returns for a volatility
BuildDataInsufficient(l) ==
  \/ Len(BuildPricesRead(l)) < 2
  \/ IsNone(compute_historical_volatility(BuildPricesRead(l), l.vol))

\* C18: when build_plan fails in steps 3 and 4, the caller can tell
\* infeasibility (no s0 <= max_s0 completes the ladder) from data
\* insufficiency (too few prices, undefined volatility): the error raised
\* for infeasibility is not the one raised for insufficient data.
C18_InfeasibilityToldApart ==
  [][\A p \in Procs :
       (proc[p].pc = "build_prices" /\ proc'[p].pc = "idle") =>
         IF BuildDataInsufficient(proc[p])
         THEN ~Raised(proc'[p], "build_plan", "No feasible forward ladder found")
         ELSE Raised(proc'[p], "build_plan", "No feasible forward ladder found")]_vars


\* the pass of l goes on after its current row: the remaining rows are still
\* visited, or the call returns the rungs fired so far
ScanGoesOn(l, r, fired) ==
  IF Len(l.active) > 1
  THEN r.pc = "scan_rung" /\ r.active = Tail(l.active) /\ r.fired = fired
  ELSE Returned(r, "scan_and_fire_alerts") /\ r.value = fired

\* C19: in a pass of scan_and_fire_alerts a row whose quote is absent is
\* skipped and nothing else: no table changes, the pass does not raise, and the
\* pass goes on with the remaining ACTIVE instances; a row whose quote is at or
\* above the target of its next PENDING rung has that rung TRIGGERED at the
\* quoted price and reported as fired, and the pass goes on as well
C19_FailedQuoteSkipsOneInstance ==
  [][\A p \in Procs :
       /\ (proc[p].pc \in {"scan_rung", "scan_fire"} /\ proc'[p].pc = "idle") =>
            Returned(proc'[p], "scan_and_fire_alerts")
       /\ (proc[p].pc = "scan_rung" /\ proc'[p] # proc[p]) => tables' = tables
       /\ (proc[p].pc = "scan_fire" /\ proc'[p] # proc[p]) =>
            LET l == proc[p]
            IN  IF IsNone(l.current_price)
                THEN /\ tables' = tables
                     /\ ScanGoesOn(l, proc'[p], l.fired)
                ELSE FGe(l.current_price, plan_rungs[l.rung_id].target_price) =>
                       /\ plan_rungs'[l.rung_id].status = "TRIGGERED"
                       /\ plan_rungs'[l.rung_id].trigger_price = l.current_price
                       /\ \A r \in DOMAIN plan_rungs :
                            r # l.rung_id => plan_rungs'[r] = plan_rungs[r]
                       /\ ScanGoesOn(l, proc'[p], Append(l.fired, l.rung_id))]_vars

\* a pass that has triggered the rung of one instance and now holds an absent
\* quote for the PENDING rung of another ACTIVE instance
C19_Witness ==
  \E p \in Procs :
    /\ proc[p].pc = "scan_fire"
    /\ IsNone(proc[p].current_price)
    /\ proc[p].fired # <<>>
    /\ plan_rungs[proc[p].rung_id].status = "PENDING"
    /\ plan_instances[Head(proc[p].active)].status = "ACTIVE"
    /\ \E r \in DOMAIN plan_rungs :
         /\ r = proc[p].fired[1]
         /\ plan_rungs[r].status = "TRIGGERED"
         /\ plan_rungs[r].instance_id # Head(proc[p].active)


\* the part of C20 about the stored state: a record_execution call for a rung
\* id that matches no rung changes no table and returns without raising
UnknownRungChangesNothing(p) ==
  /\ (proc[p].pc = "idle" /\ proc'[p].pc = "exec_instance"
        /\ proc'[p].rung_id \notin DOMAIN plan_rungs) => tables' = tables
  /\ (proc[p].pc = "exec_instance" /\ proc[p].rung_id \notin DOMAIN plan_rungs
        /\ proc'[p] # proc[p]) =>
       tables' = tables /\ Returned(proc'[p], "record_execution")

\* C20: recording an execution for a rung id that matches no rung changes no
\* rung and no alert, does not raise, and is answered to the caller as
\* not-found (404), not as an execution
C20_UnknownRungReportedNotFound ==
  [][\A p \in Procs :
       /\ UnknownRungChangesNothing(p)
       /\ (proc[p].pc = "exec_instance" /\ proc[p].rung_id \notin DOMAIN plan_rungs
             /\ proc'[p] # proc[p]) =>
            /\ execute_rung(proc'[p]).code = 404
            /\ execute_rung(proc'[p]).status # "EXECUTED"]_vars


\* C21: an alert's status changes only from ACTIVE to FIRED or from ACTIVE to
\* DISABLED; an alert that is FIRED or DISABLED never becomes ACTIVE again
C21_AlertStatusMoves ==
  [][\A a \in DOMAIN alerts :
       (a \in DOMAIN alerts' /\ alerts'[a].status # alerts[a].status) =>
         /\ alerts[a].status = "ACTIVE"
         /\ alerts'[a].status \in {"FIRED", "DISABLED"}]_vars


\* the last call made on the Portfolio by this step
PortfolioCallStep == Len(portfolio_calls') = Len(portfolio_calls) + 1
LastPortfolioCall == portfolio_calls[Len(portfolio_calls)]

\* x is the stock s and not None
IsStock(x, s) == ~IsNone(x) /\ x = s

\* C22: after add_stock(s) a get_stock(s.symbol) returns s; after
\* remove_stock(symbol) a get_stock(symbol) returns None; a get_stock call
\* returns what the last add or remove of its symbol left; the portfolio holds
\* at most one stock per symbol, under that symbol; a remove_stock of an absent
\* symbol changes nothing; no call touches the stock of another symbol
C22_PortfolioKeyedBySymbol ==
  [][PortfolioCallStep =>
       LET c == portfolio_calls'[Len(portfolio_calls')]
       IN  /\ c.op = "add_stock" => IsStock(get_stock(stocks', c.arg), c.stock)
           /\ c.op = "remove_stock" =>
                /\ IsNone(get_stock(stocks', c.arg))
                /\ c.arg \notin DOMAIN stocks => stocks' = stocks
           /\ c.op = "get_stock" =>
                /\ stocks' = stocks
                /\ \A k \in 1..Len(portfolio_calls) :
                     (/\ portfolio_calls[k].arg = c.arg
                      /\ portfolio_calls[k].op \in {"add_stock", "remove_stock"}
                      /\ \A j \in (k + 1)..Len(portfolio_calls) :
                           portfolio_calls[j].arg = c.arg =>
                             portfolio_calls[j].op = "get_stock") =>
                       IF portfolio_calls[k].op = "add_stock"
                       THEN IsStock(c.ret, portfolio_calls[k].stock)
                       ELSE IsNone(c.ret)
           /\ \A sym \in StockSymbols :
                /\ Cardinality({k \in DOMAIN stocks' : stocks'[k].symbol = sym}) <= 1
                /\ sym \in DOMAIN stocks' => stocks'[sym].symbol = sym
                /\ sym # c.arg =>
                     /\ (sym \in DOMAIN stocks') = (sym \in DOMAIN stocks)
                     /\ sym \in DOMAIN stocks => stocks'[sym] = stocks[sym]]_vars

\* a stock was added, another stock of the same symbol was added after it, and
\* get_stock then returned the second one
C22_Witness ==
  /\ Len(portfolio_calls) = 3
  /\ portfolio_calls[1].op = "add_stock"
  /\ portfolio_calls[2].op = "add_stock"
  /\ portfolio_calls[2].arg = portfolio_calls[1].arg
  /\ portfolio_calls[2].stock # portfolio_calls[1].stock
  /\ portfolio_calls[3].op = "get_stock"
  /\ portfolio_calls[3].arg = portfolio_calls[1].arg
  /\ IsStock(portfolio_calls[3].ret, portfolio_calls[2].stock)
  /\ Cardinality(DOMAIN stocks) = 1


\* C23: when an operation that changed the next pending rung of an ACTIVE
\* instance has completed, an ACTIVE alert exists for the new next pending
\* rung; stated for every completed operation: in the state a returning call
\* leaves, the next pending rung of every ACTIVE instance has an ACTIVE alert
C23_NextPendingRungHasAlert ==
  [][\A p \in Procs :
       (proc[p].pc # "idle" /\ proc'[p].pc = "idle" /\ proc'[p].outcome = "return") =>
         \A i \in DOMAIN plan_instances' :
           LET rung_id == next_pending_rung(plan_instances', plan_rungs', i)
           IN  rung_id # 0 => active_alert_for_rung(alerts', rung_id) # 0]_vars


\* C24: a call of design_forward_ladder_from_history on a series whose
\* volatility is undefined (fewer than 2 usable log returns) returns no plan,
\* whether H is derived or supplied; a returned plan never has an undefined
\* annual_vol
C24_UndefinedVolatilityNoPlan ==
  ladder_call.pc = "done" =>
    /\ usable_log_returns(ladder_call.args.prices) < 2 => IsNone(ladder_call.plan)
    /\ ~IsNone(ladder_call.plan) => ~IsNone(ladder_call.plan.annual_vol)


\* a build_plan call at pc build_bars, with one caller at a time, is going to
\* fail for data insufficiency: its bars pass the CHECKs, and the history it
\* will read back after storing them is too short for a plan
BuildWillLackData(l) ==
  LET stored == upsert_daily_bars(price_bars_daily, l.symbol_id, l.bars)
      dates  == last_bar_dates(stored, l.symbol_id, l.params.history_window_days)
      prices == [i \in 1..Len(dates) |-> stored[<<l.symbol_id, dates[i]>>].adj_close]
  IN  /\ \A i \in 1..Len(l.bars) : l.bars[i].close.m # <<>> /\ l.bars[i].adj_close.m # <<>>
      /\ \/ Len(prices) < 2
         \/ IsNone(compute_historical_volatility(prices, l.vol))

\* C25: a build_plan call that fails because of data insufficiency (too
\* little stored history, undefined volatility) has written nothing: none of
\* its steps changes symbols, price_bars_daily, plan_templates,
\* plan_instances, plan_rungs or alerts
C25_DataInsufficiencyWritesNothing ==
  [][\A p \in Procs :
       /\ (proc[p].pc = "idle" /\ proc'[p].pc = "build_bars"
             /\ BuildWillLackData(proc'[p])) => tables' = tables
       /\ (proc[p].pc = "build_bars" /\ proc'[p] # proc[p]
             /\ BuildWillLackData(proc[p])) => tables' = tables
       /\ (proc[p].pc = "build_prices" /\ proc'[p] # proc[p]
             /\ BuildDataInsufficient(proc[p])) => tables' = tables]_vars


\* C26: a record_execution call on a rung that is already EXECUTED is a
\* silent no-op: its mark-executed transaction changes no field of any rung,
\* the notes of the rung included, and no alert, and the steps after it up to
\* the alert refresh neither raise nor change a table
C26_SecondExecutionChangesNothing ==
  [][\A p \in Procs :
       /\ (proc[p].pc = "idle" /\ proc'[p].pc = "exec_instance"
             /\ proc'[p].rung_id \in DOMAIN plan_rungs
             /\ plan_rungs[proc'[p].rung_id].status = "EXECUTED") =>
            plan_rungs' = plan_rungs /\ alerts' = alerts
       /\ (proc[p].pc = "exec_instance" /\ proc'[p] # proc[p]) =>
            /\ tables' = tables
            /\ proc'[p].pc = "idle" => Returned(proc'[p], "record_execution")]_vars


ExecutedRungsOf(i) ==
  {r \in DOMAIN plan_rungs : plan_rungs[r].instance_id = i /\ plan_rungs[r].status = "EXECUTED"}

\* C27: when the record_execution calls for two different rungs of an ACTIVE
\* instance have returned, whatever way their steps interleaved, the instance
\* has at most one ACTIVE alert, that alert is on the lowest-indexed PENDING
\* rung, and no ACTIVE alert is on an EXECUTED rung
C27_ExecutionsLeaveOneAlert ==
  AllIdle =>
    \A i \in DOMAIN plan_instances :
      (plan_instances[i].status = "ACTIVE" /\ Cardinality(ExecutedRungsOf(i)) >= 2) =>
        /\ Cardinality(ActiveAlertsOf(i)) <= 1
        /\ \A a \in ActiveAlertsOf(i) :
             /\ LowestPendingRung(i, alerts[a].rung_id)
             /\ plan_rungs[alerts[a].rung_id].status # "EXECUTED"


\* C28: the write of a scan_and_fire_alerts pass for a row changes only the
\* lowest-indexed PENDING rung of an instance that is ACTIVE and the alert of
\* that rung; it changes no rung and no alert of a SUPERSEDED instance, also
\* when a build_plan for the symbol has committed since the pass read the rung
C28_ScanWritesOnlyNextPending ==
  [][\A p \in Procs :
       (proc[p].pc = "scan_fire" /\ proc'[p] # proc[p]) =>
         /\ \A r \in DOMAIN plan_rungs :
              plan_rungs'[r] # plan_rungs[r] =>
                /\ r = proc[p].rung_id
                /\ plan_rungs[r].instance_id \in DOMAIN plan_instances
                /\ plan_instances[plan_rungs[r].instance_id].status = "ACTIVE"
                /\ LowestPendingRung(plan_rungs[r].instance_id, r)
         /\ \A a \in DOMAIN alerts :
              alerts'[a] # alerts[a] =>
                /\ alerts[a].rung_id = proc[p].rung_id
                /\ alerts[a].instance_id \in DOMAIN plan_instances
                /\ plan_instances[alerts[a].instance_id].status = "ACTIVE"]_vars


\* C29: a rung is in the fired list that at most one scan_and_fire_alerts
\* invocation returns, also when two invocations interleave: the lists that
\* the latest invocations of two processes have returned share no rung
C29_RungFiredOnce ==
  \A p, q \in Procs :
    (/\ p # q
     /\ proc[p].pc = "idle" /\ proc[q].pc = "idle"
     /\ Returned(proc[p], "scan_and_fire_alerts")
     /\ Returned(proc[q], "scan_and_fire_alerts")) =>
      Range(proc[p].value) \cap Range(proc[q].value) = {}


\* C30: in every reachable state, also after purge_superseded_plans has
\* deleted SUPERSEDED instances, the supersedes_instance_id of every plan
\* instance is null or the id of a plan instance that exists
C30_SupersedesExistingInstance ==
  \A i \in DOMAIN plan_instances :
    \/ plan_instances[i].supersedes_instance_id = NullInt
    \/ plan_instances[i].supersedes_instance_id \in DOMAIN plan_instances


\* C31: a build_plan call that supersedes the ACTIVE instance of its symbol
\* changes nothing of that instance but its status: the build transaction
\* leaves every stored rung and alert as it is and the other instances too,
\* and the alert refresh that follows changes no rung and no alert of an
\* instance other than the new one
C31_SupersedingKeepsRungsAndAlerts ==
  [][\A p \in Procs :
       /\ (proc[p].pc = "build_instance" /\ proc'[p].pc = "ensure_read") =>
            LET prev == prev_active_instance(plan_instances, proc[p].symbol_id)
            IN  /\ \A i \in DOMAIN plan_instances :
                     /\ i \in DOMAIN plan_instances'
                     /\ plan_instances'[i] =
                          IF i = prev THEN [plan_instances[i] EXCEPT !.status = "SUPERSEDED"]
                          ELSE plan_instances[i]
                /\ \A r \in DOMAIN plan_rungs :
                     r \in DOMAIN plan_rungs' /\ plan_rungs'[r] = plan_rungs[r]
                /\ alerts' = alerts
       /\ (proc[p].pc \in {"ensure_read", "ensure_write"} /\ proc[p].caller = "build_plan"
             /\ proc'[p] # proc[p]) =>
            /\ plan_rungs' = plan_rungs
            /\ plan_instances' = plan_instances
            /\ \A a \in DOMAIN alerts :
                 alerts[a].instance_id # proc[p].instance_id =>
                   a \in DOMAIN alerts' /\ alerts'[a] = alerts[a]]_vars

\* a build_plan call has returned the instance that supersedes an earlier one,
\* and the earlier one still has its PENDING rung and the ACTIVE alert on it
C31_Witness ==
  \E p \in Procs :
    /\ Returned(proc[p], "build_plan")
    /\ proc[p].value \in DOMAIN plan_instances
    /\ LET prev == plan_instances[proc[p].value].supersedes_instance_id
       IN  /\ prev \in DOMAIN plan_instances
           /\ plan_instances[prev].status = "SUPERSEDED"
           /\ \E a \in DOMAIN alerts :
                /\ alerts[a].instance_id = prev
                /\ alerts[a].status = "ACTIVE"
                /\ plan_rungs[alerts[a].rung_id].status = "PENDING"
           /\ \E a \in DOMAIN alerts :
                alerts[a].instance_id = proc[p].value /\ alerts[a].status = "ACTIVE"


\* C32: in every reachable state, with scans and record_execution calls of
\* another process interleaved, a TRIGGERED rung has no PENDING rung of its
\* instance below it: the scan triggers rungs in increasing rung_index order
C32_TriggeredInIndexOrder ==
  \A r, q \in DOMAIN plan_rungs :
    (/\ plan_rungs[r].instance_id = plan_rungs[q].instance_id
     /\ plan_rungs[r].status = "TRIGGERED"
     /\ plan_rungs[q].rung_index < plan_rungs[r].rung_index) =>
      plan_rungs[q].status # "PENDING"

\* the second rung of an instance is TRIGGERED and the first one is no longer
\* PENDING
C32_Witness ==
  \E r, q \in DOMAIN plan_rungs :
    /\ plan_rungs[r].instance_id = plan_rungs[q].instance_id
    /\ plan_rungs[r].status = "TRIGGERED"
    /\ plan_rungs[r].rung_index = 2
    /\ plan_rungs[q].rung_index = 1
    /\ plan_rungs[q].status \in {"TRIGGERED", "EXECUTED"}


\* C33: every rung of a completed ladder has price_target = (1 + H) * V0 /
\* shares_before with V0 = s0 * P, shares_after = ceil(V0 / price_target),
\* shares_sold = shares_before - shares_after and shares_sold >= 1, each
\* evaluated in binary64 as the code evaluates it
C33_RungFormulas ==
  (ladder_call.pc = "done" /\ ~IsNone(ladder_call.plan)) =>
    LET plan == ladder_call.plan
        V0   == FMul(FInt(plan.s0), plan.P_current)
    IN  \A k \in 1..Len(plan.ladder) :
          LET rung == plan.ladder[k]
          IN  /\ rung.price_target =
                   FDiv(FMul(FAdd(FInt(1), plan.H), V0), FInt(rung.shares_before))
              /\ rung.shares_after = FCeil(FDiv(V0, rung.price_target))
              /\ rung.shares_sold = rung.shares_before - rung.shares_after
              /\ rung.shares_sold >= 1

\* a returned ladder of at least two rungs, one of which sells more than one share
C33_Witness ==
  /\ ladder_call.pc = "done"
  /\ ~IsNone(ladder_call.plan)
  /\ Len(ladder_call.plan.ladder) >= 2
  /\ \E k \in 1..Len(ladder_call.plan.ladder) : ladder_call.plan.ladder[k].shares_sold >= 2


\* C34: in every completed ladder the target prices strictly increase with
\* the rung index, shares_after strictly decreases, the first rung starts
\* from s0 shares and every later rung from the shares_after of the rung
\* before it
C34_LadderMonotone ==
  (ladder_call.pc = "done" /\ ~IsNone(ladder_call.plan)) =>
    LET plan   == ladder_call.plan
        ladder == plan.ladder
    IN  /\ Len(ladder) >= 1 => ladder[1].shares_before = plan.s0
        /\ \A k \in 2..Len(ladder) :
             /\ FLt(ladder[k - 1].price_target, ladder[k].price_target)
             /\ ladder[k].shares_after < ladder[k - 1].shares_after
             /\ ladder[k].shares_before = ladder[k - 1].shares_after

\* a returned ladder of three rungs
C34_Witness ==
  /\ ladder_call.pc = "done"
  /\ ~IsNone(ladder_call.plan)
  /\ Len(ladder_call.plan.ladder) >= 3


\* the rungs a loop of scan_and_fire_alerts or symbols_at_harvest_points has
\* kept after the step that leaves its position l for r
KeptAfter(l, r, field) == IF Len(l.active) > 1 THEN r[field] ELSE r.value

\* C35: scan_and_fire_alerts and symbols_at_harvest_points take the next
\* pending rung as reached exactly when a quote is there and is at or above
\* the rung's target price: a quote equal to the target reaches the rung, a
\* quote below it or no quote does not.  A reached rung is added to what the
\* call returns (and the scan sets a PENDING one TRIGGERED); a rung not reached
\* is not added and no table changes.
C35_ReachedIffAtOrAboveTarget ==
  [][\A p \in Procs :
       /\ (proc[p].pc = "scan_fire" /\ proc'[p] # proc[p]) =>
            LET l     == proc[p]
                trig  == ~IsNone(l.current_price) /\ FGe(l.current_price, l.target_price)
                after == KeptAfter(l, proc'[p], "fired")
            IN  /\ trig => after = Append(l.fired, l.rung_id)
                /\ (trig /\ plan_rungs[l.rung_id].status = "PENDING") =>
                     plan_rungs'[l.rung_id].status = "TRIGGERED"
                /\ ~trig => (after = l.fired /\ tables' = tables)
       /\ (proc[p].pc = "harvest_check" /\ proc'[p] # proc[p]) =>
            LET l     == proc[p]
                trig  == ~IsNone(l.current_price) /\ FGe(l.current_price, l.target_price)
                after == KeptAfter(l, proc'[p], "results")
            IN  /\ trig => after = Append(l.results, l.rung_id)
                /\ ~trig => after = l.results
                /\ tables' = tables]_vars

\* a scan has triggered a rung at a quote equal to its target, and a poll of
\* the harvest points has returned a rung
C35_Witness ==
  /\ \E r \in DOMAIN plan_rungs :
       /\ plan_rungs[r].status = "TRIGGERED"
       /\ plan_rungs[r].trigger_price = plan_rungs[r].target_price
  /\ \E p \in Procs :
       /\ Returned(proc[p], "symbols_at_harvest_points")
       /\ proc[p].value # <<>>


\* the ids a rung can have in a run
RungIds == 1 .. (MaxLiveBuilds * MaxN)

\* every quote a scan holds is there and is at or above the target of the rung
\* it was polled for
QuoteAtOrAboveTarget ==
  \A p \in Procs :
    proc[p].pc = "scan_fire" =>
      ~IsNone(proc[p].current_price) /\ FGe(proc[p].current_price, proc[p].target_price)

\* r is the lowest-indexed PENDING rung of an ACTIVE instance
NextRungOfActive(r) ==
  /\ r \in DOMAIN plan_rungs
  /\ plan_instances[plan_rungs[r].instance_id].status = "ACTIVE"
  /\ LowestPendingRung(plan_rungs[r].instance_id, r)

\* r is TRIGGERED, or its instance is ACTIVE no more
TriggeredOrSuperseded(r) ==
  /\ r \in DOMAIN plan_rungs
  /\ \/ plan_rungs[r].status = "TRIGGERED"
     \/ plan_instances[plan_rungs[r].instance_id].status # "ACTIVE"

\* C36: if every quote the scan gets is there and is at or above the target,
\* and the scan is invoked again and again (weak fairness on the scan), then
\* the lowest-indexed PENDING rung of an instance becomes TRIGGERED in the end,
\* unless its instance stops being ACTIVE.  No record_execution runs here, so
\* the rung that becomes the lowest PENDING one after a trigger is reached by a
\* later scan with the triggered rung unexecuted.
C36_ScanTriggersInTheEnd ==
  ([]QuoteAtOrAboveTarget) =>
    (\A r \in RungIds : NextRungOfActive(r) ~> TriggeredOrSuperseded(r))

\* two rungs of an ACTIVE instance are TRIGGERED, none of its rungs EXECUTED
C36_Witness ==
  \E i \in DOMAIN plan_instances :
    /\ plan_instances[i].status = "ACTIVE"
    /\ Cardinality({r \in RungsOf(plan_rungs, i) : plan_rungs[r].status = "TRIGGERED"}) >= 2
    /\ \A r \in RungsOf(plan_rungs, i) : plan_rungs[r].status # "EXECUTED"


\* compute_price_targets completes n_harvests rungs from s0 shares
Feasible(P0, H, s0, n_harvests) == Len(compute_price_targets(P0, H, s0, n_harvests)) = n_harvests

\* C37: feasibility is monotone in the share count.  For the price and the
\* threshold of a returned plan, a count from which compute_price_targets
\* completes n_iterations rungs is followed only by counts from which it
\* completes them too; so every count below the returned s0 is infeasible and
\* every count from s0 to MaxS0 is feasible.
C37_FeasibilityMonotone ==
  (ladder_call.pc = "done" /\ ~IsNone(ladder_call.plan)) =>
    LET plan == ladder_call.plan
        n    == ladder_call.args.n_iterations
    IN  /\ \A s \in 1..(plan.s0 - 1) : ~Feasible(plan.P_current, plan.H, s, n)
        /\ \A s \in plan.s0..MaxS0 : Feasible(plan.P_current, plan.H, s, n)


\* C38: every plan instance build_plan has stored has v0_floor = shares_initial
\* x price_asof, the product of the stored share count and the stored as-of
\* price, and capital_at_risk = v0_floor
C38_FloorIsSharesTimesPriceAsof ==
  \A i \in DOMAIN plan_instances :
    /\ plan_instances[i].v0_floor =
         FMul(FInt(plan_instances[i].shares_initial), plan_instances[i].price_asof)
    /\ plan_instances[i].capital_at_risk = plan_instances[i].v0_floor


\* the alert rows of a rung
AlertsOfRung(rung_id) == {a \in DOMAIN alerts : alerts[a].rung_id = rung_id}

\* C39: in every reachable state, also while two callers run
\* _ensure_next_rung_alert for one instance, a rung has at most one alert row:
\* a refresh of a rung that has an alert updates that row
C39_OneAlertPerRung ==
  \A r \in DOMAIN plan_rungs : Cardinality(AlertsOfRung(r)) <= 1

\* two calls of record_execution have returned, and an instance whose second
\* rung is EXECUTED has its first rung PENDING with one alert, the row that
\* build_plan inserted and the refresh after the execution found again
C39_Witness ==
  /\ \A p \in Procs : Returned(proc[p], "record_execution")
  /\ \E r, q \in DOMAIN plan_rungs :
       /\ plan_rungs[r].instance_id = plan_rungs[q].instance_id
       /\ plan_rungs[r].rung_index < plan_rungs[q].rung_index
       /\ plan_rungs[r].status = "PENDING"
       /\ plan_rungs[q].status = "EXECUTED"
       /\ Cardinality(AlertsOfRung(r)) = 1


\* C40: a returned plan of a call without H, whose volatility is defined, has
\* H = max(min_H, min(max_H, alpha x annual_vol)), which lies in [min_H, max_H]
\* whenever min_H <= max_H; a returned plan of a call with H has that H
C40_ThresholdClampedOrVerbatim ==
  (ladder_call.pc = "done" /\ ~IsNone(ladder_call.plan)) =>
    LET c    == ladder_call.args
        plan == ladder_call.plan
        raw  == FMul(c.alpha, plan.annual_vol)
    IN  IF IsNone(c.H)
        THEN /\ ~IsNone(plan.annual_vol)
             /\ plan.H = (IF FLt(raw, c.min_H) THEN c.min_H
                          ELSE IF FLt(c.max_H, raw) /\ FGe(c.max_H, c.min_H) THEN c.max_H
                          ELSE IF FLt(c.max_H, raw) THEN c.min_H
                          ELSE raw)
             /\ FGe(c.max_H, c.min_H) => (FGe(plan.H, c.min_H) /\ FGe(c.max_H, plan.H))
        ELSE plan.H = c.H

\* a returned ladder with a rung whose threshold is max_H, below alpha x annual_vol
C40_Witness ==
  /\ ladder_call.pc = "done"
  /\ ~IsNone(ladder_call.plan)
  /\ IsNone(ladder_call.args.H)
  /\ Len(ladder_call.plan.ladder) >= 1
  /\ ladder_call.plan.H = ladder_call.args.max_H
  /\ FLt(ladder_call.args.max_H, FMul(ladder_call.args.alpha, ladder_call.plan.annual_vol))

====
